---- MODULE Spec2Model ----
(***************************************************************************)
(* Model of the program-extraction engine of pub-mwb-parser: the result /  *)
(* error convention (withErrorHandling), the reference resolver, the       *)
(* selection-group builder and the section extractors.                     *)
(*                                                                         *)
(* JavaScript strings whose characters matter (URLs, class tags, captions) *)
(* are sequences of one-character strings.  JavaScript values that cross   *)
(* an operation boundary are records with a cls field ("Error",            *)
(* "TypeError", "Object", "Null", ...); instanceof Error is IsError.       *)
(***************************************************************************)
EXTENDS Integers, Sequences, FiniteSets, TLC

VARIABLES
    op,       \* the exported operation that is being called
    input,    \* the arguments of the call (document, payloads served by the collaborator)
    pc,       \* position of the call: "start", "await", "done"
    ret,      \* settlement of the call: [kind |-> "pending" | "return" | "throw", val |-> value]
    wbr,      \* extractWeeklyBibleRead: locals of the running call
    talk,     \* extractTreasuresTalk: locals of the running call
    tasks,    \* extractFullWeekProgram: the six promises handed to Promise.all
    fetchLog, \* fetches issued so far, in issue order
    builderCalls, \* calls of the selectionBuilder of the caller so far: their arguments
    req,      \* the HTTP request the call serves, Null for a call from code
    res       \* the HTTP responses sent to the request so far

vars == <<op, input, pc, ret, wbr, talk, tasks, fetchLog, builderCalls, req, res>>

-----------------------------------------------------------------------------
(* Bounds of the model                                                     *)

MaxAnchors == 3      \* anchors of the weekly reading line (#p2 a)
MaxChapter == 3      \* chapter numbers served in scripture payloads
MaxRefs == 3         \* reference anchors of a treasures talk, over all points
MaxSpan == 5         \* siblings between the treasures-talk anchor and the field-ministry headline
MaxFaults == 1       \* failing fetches in one full-week extraction
MaxPoints == 2       \* points (paragraphs) of a treasures talk
MaxDeviations == 2   \* places where a document departs from the page template
MaxGemsAnchors == 3  \* anchors of the content of the spiritual gems
MaxElements == 4     \* elements of a flat list given to buildHeadlineToContentGroups
MaxAssignments == 2   \* assignments of a field ministry section

-----------------------------------------------------------------------------
(* Characters and strings                                                  *)

Digits == <<"0", "1", "2", "3", "4", "5", "6", "7", "8", "9">>
UpperCase == <<"A", "B", "C", "D", "E", "F", "G", "H", "I", "J", "K", "L", "M",
               "N", "O", "P", "Q", "R", "S", "T", "U", "V", "W", "X", "Y", "Z">>
LowerCase == <<"a", "b", "c", "d", "e", "f", "g", "h", "i", "j", "k", "l", "m",
               "n", "o", "p", "q", "r", "s", "t", "u", "v", "w", "x", "y", "z">>

Range(s) == {s[i] : i \in DOMAIN s}

IsDigit(c) == c \in Range(Digits)

DigitVal(c) == (CHOOSE i \in DOMAIN Digits : Digits[i] = c) - 1

\* \w of a JavaScript regular expression
IsWordChar(c) == c \in Range(Digits) \cup Range(UpperCase) \cup Range(LowerCase) \cup {"_"}

\* \s of a JavaScript regular expression, over the characters of the model
\* the no-break space U+00A0, one character
NBSP == "nbsp"

IsSpace(c) == c \in {" ", "\n", "\t", NBSP}

ToLowerChar(c) ==
    IF c \in Range(UpperCase)
    THEN LowerCase[CHOOSE i \in DOMAIN UpperCase : UpperCase[i] = c]
    ELSE c

ToLower(s) == [i \in DOMAIN s |-> ToLowerChar(s[i])]

\* String(n) for a non-negative integer
RECURSIVE NumToStr(_)
NumToStr(n) ==
    IF n < 10 THEN <<Digits[n + 1]>>
    ELSE NumToStr(n \div 10) \o <<Digits[(n % 10) + 1]>>

\* decimal value of a string of digits
RECURSIVE StrToNum(_)
StrToNum(s) ==
    IF s = <<>> THEN 0
    ELSE 10 * StrToNum(SubSeq(s, 1, Len(s) - 1)) + DigitVal(s[Len(s)])

\* String.prototype.slice(from) and slice(0, to) with non-negative arguments
SliceFrom(s, from) == SubSeq(s, from + 1, Len(s))
SliceTo(s, to) == SubSeq(s, 1, IF to < Len(s) THEN to ELSE Len(s))

\* String.prototype.trim
RECURSIVE TrimLeft(_)
TrimLeft(s) == IF s # <<>> /\ IsSpace(s[1]) THEN TrimLeft(Tail(s)) ELSE s
RECURSIVE TrimRight(_)
TrimRight(s) ==
    IF s # <<>> /\ IsSpace(s[Len(s)]) THEN TrimRight(SubSeq(s, 1, Len(s) - 1)) ELSE s
Trim(s) == TrimRight(TrimLeft(s))

\* String.prototype.split(sep) for a one-character separator: a sequence of strings
RECURSIVE Split(_, _)
Split(s, sep) ==
    IF \A i \in DOMAIN s : s[i] # sep THEN <<s>>
    ELSE LET k == CHOOSE i \in DOMAIN s : s[i] = sep /\ \A j \in 1..(i - 1) : s[j] # sep
         IN  <<SubSeq(s, 1, k - 1)>> \o Split(SubSeq(s, k + 1, Len(s)), sep)

\* Array.prototype.join(sep)
RECURSIVE Join(_, _)
Join(parts, sep) ==
    IF parts = <<>> THEN <<>>
    ELSE IF Len(parts) = 1 THEN parts[1]
    ELSE parts[1] \o <<sep>> \o Join(Tail(parts), sep)

\* new RegExp(`\\b${code}\\b`, 'i').test(s), for a code that starts and ends with a word character
WordBoundaryTest(code, s) ==
    \E i \in 1..(Len(s) - Len(code) + 1) :
        /\ ToLower(SubSeq(s, i, i + Len(code) - 1)) = ToLower(code)
        /\ (i = 1 \/ ~IsWordChar(s[i - 1]))
        /\ (i + Len(code) - 1 = Len(s) \/ ~IsWordChar(s[i + Len(code)]))

-----------------------------------------------------------------------------
(* Program constants                                                       *)

BASE_URL == <<"h", "t", "t", "p", "s", ":", "/", "/", "w", "o", "l", ".", "j", "w", ".", "o", "r", "g">>
PUB_CODE_WATCHTOWER == <<"p", "u", "b", "-", "w">>
PUB_CODE_BIBLE == <<"p", "u", "b", "-", "n", "w", "t", "s", "t", "y">>

-----------------------------------------------------------------------------
(* Values and settlements                                                  *)

Null == [cls |-> "Null"]
Error(m) == [cls |-> "Error", msg |-> m]
TypeError(m) == [cls |-> "TypeError", msg |-> m]

\* value instanceof Error
IsError(v) == v.cls \in {"Error", "TypeError"}

\* if (err): an Error object is truthy, null is not
Truthy(v) == v.cls \notin {"Null", "Undefined"}

Return(v) == [kind |-> "return", val |-> v]
Throw(v) == [kind |-> "throw", val |-> v]
Pending == [kind |-> "pending", val |-> Null]

Tuple(e, r) == [cls |-> "Tuple", err |-> e, res |-> r]

\* The wrapper with the instanceof test left out: a returned Error is a result.
withErrorHandling_ThrowOnly(s) ==
    IF s.kind = "throw" THEN Return(Tuple(s.val, Null))
    ELSE Return(Tuple(Null, s.val))

\* withErrorHandling(asyncFunc)(...args), given how asyncFunc(...args) settles
withErrorHandling(s) ==
    IF s.kind = "throw" THEN Return(Tuple(s.val, Null))
    ELSE IF IsError(s.val) THEN Return(Tuple(s.val, Null))
    ELSE Return(Tuple(Null, s.val))

\* how a wrapped function can settle: it resolves to a value, resolves to an
\* Error, or throws (rejects with) an Error
WrappedSettlements ==
    {Return([cls |-> "Object", tag |-> t]) : t \in {"a", "b"}}
    \cup {Return([cls |-> "String", tag |-> t]) : t \in {"", "a"}}
    \cup {Return(Null), Return([cls |-> "Undefined"])}
    \cup {Return(e) : e \in {Error("e1"), Error("e2"), TypeError("t1")}}
    \cup {Throw(e) : e \in {Error("e1"), Error("e2"), TypeError("t1")}}

-----------------------------------------------------------------------------
(* Payloads served by the fetch collaborator                               *)

Classes_bible == <<"a", " ", "p", "u", "b", "-", "n", "w", "t", "s", "t", "y">>
Classes_bibleUpper == <<"P", "U", "B", "-", "N", "W", "T", "S", "T", "Y", " ", "j">>
Classes_watchtower == <<"a", " ", "p", "u", "b", "-", "w", " ", "j">>
Classes_insight == <<"a", " ", "p", "u", "b", "-", "i", "t">>
Classes_wp == <<"p", "u", "b", "-", "w", "p">>
Classes_both == <<"p", "u", "b", "-", "w", " ", "p", "u", "b", "-", "n", "w", "t", "s", "t", "y">>

BookNames == << <<"G", "e">>, <<"1", "S", "a">> >>

\* a BiblicalPassageItem: a passage of one book, chapters fc..lc
ScriptureItem(book, fc, lc, classes) ==
    [hasContent |-> TRUE, content |-> "verses",
     hasClasses |-> TRUE, articleClasses |-> classes,
     url |-> <<"/", "b", "/">> \o NumToStr(book) \o <<"/">> \o NumToStr(fc),
     book |-> book,
     caption |-> BookNames[book] \o <<" ">> \o NumToStr(fc) \o <<":", "1">>,
     first_chapter |-> fc, last_chapter |-> lc]

\* a BasePublicationItem: no passage fields are read from it
PublicationItem(content, hasClasses, classes) ==
    [hasContent |-> TRUE, content |-> content,
     hasClasses |-> hasClasses, articleClasses |-> classes,
     url |-> <<"/", "d", "/", "7">>, book |-> 0, caption |-> <<>>,
     first_chapter |-> 0, last_chapter |-> 0]

\* an element that is no item object: neither content nor articleClasses
NoItem ==
    [hasContent |-> FALSE, content |-> "",
     hasClasses |-> FALSE, articleClasses |-> <<>>,
     url |-> <<>>, book |-> 0, caption |-> <<>>,
     first_chapter |-> 0, last_chapter |-> 0]

WatchtowerItem == PublicationItem("article", TRUE, Classes_watchtower)
InsightItem == PublicationItem("entry", TRUE, Classes_insight)

Json(kind, items) == [kind |-> kind, items |-> items]

\* json.items is undefined, an array, or an array-like that is no array
JsonPool ==
    {Json("array", <<it>>) : it \in
        {ScriptureItem(1, 1, 2, Classes_bible), ScriptureItem(1, 1, 1, Classes_bibleUpper),
         ScriptureItem(1, 2, 2, Classes_both), WatchtowerItem, InsightItem,
         PublicationItem("entry", TRUE, Classes_wp),
         PublicationItem("", TRUE, Classes_bible),
         PublicationItem("entry", TRUE, <<>>),
         PublicationItem("entry", FALSE, <<>>), NoItem}}
    \cup {Json("array", <<>>), Json("undefined", <<>>),
          Json("arraylike", <<>>), Json("arraylike", <<NoItem>>),
          Json("arraylike", <<NoItem, NoItem>>),
          Json("array", <<WatchtowerItem, InsightItem>>),
          Json("array", <<ScriptureItem(1, 1, 2, Classes_bible), NoItem>>),
          Json("array", <<NoItem, WatchtowerItem>>)}

\* what getJsonContent(url) resolves to: [err, null] or [null, json]
Failed(m) == [ok |-> FALSE, errMsg |-> m, json |-> Json("undefined", <<>>)]
Fetched(json) == [ok |-> TRUE, errMsg |-> "", json |-> json]

-----------------------------------------------------------------------------
(* Reference resolver (tooltip_data_retriever.mjs)                         *)

MSG_BAD_JSON == "JSON content for reference doesn't match the expected format."
MSG_UNEXPECTED_REF == "Unexpected anchor reference data extracted from anchor element"
MSG_UNDEFINED == "Cannot read properties of undefined"

\* buildAnchorRefExtractionData($el)
buildAnchorRefExtractionData(href) ==
    [sourceHref |-> href, fetchUrl |-> BASE_URL \o SliceFrom(href, 3)]

\* isJsonContentAcceptableForReferenceExtraction(json): a boolean, or a
\* TypeError from json.items.length of undefined or from itemData.content
\* of undefined
isJsonContentAcceptableForReferenceExtraction(json) ==
    IF json.kind = "undefined" THEN [threw |-> TRUE, valid |-> FALSE]
    ELSE LET isValid1 == ~(json.kind # "array" /\ Len(json.items) # 1)
         IN  IF json.items = <<>> THEN [threw |-> TRUE, valid |-> FALSE]
             ELSE LET itemData == json.items[1]
                      isValid2 == itemData.hasContent /\ itemData.content # ""
                      isValid3 == itemData.hasClasses /\ itemData.articleClasses # <<>>
                  IN  [threw |-> FALSE, valid |-> isValid1 /\ isValid2 /\ isValid3]

\* detectReferenceDataType(itemData)
detectReferenceDataType(itemData) ==
    [isPubW |-> WordBoundaryTest(PUB_CODE_WATCHTOWER, itemData.articleClasses),
     isPubNwtsty |-> WordBoundaryTest(PUB_CODE_BIBLE, itemData.articleClasses)]

\* The dispatch that looks at the scripture flag first.
pickAndApplyParsingLogic_ScriptureFirst(d, contentToParse) ==
    [parser |-> IF d.isPubNwtsty THEN "parsePubNwtsty"
                ELSE IF d.isPubW THEN "parsePubW"
                ELSE "parseDefault",
     of |-> contentToParse]

\* pickAndApplyParsingLogic({isPubW, isPubNwtsty}, contentToParse): the
\* normalizer that is applied, and the content it is applied to
pickAndApplyParsingLogic(d, contentToParse) ==
    [parser |-> IF d.isPubW THEN "parsePubW"
                ELSE IF d.isPubNwtsty THEN "parsePubNwtsty"
                ELSE "parseDefault",
     of |-> contentToParse]

\* buildPublicationRefData(rawReferenceData)
buildPublicationRefData(rawReferenceData) ==
    LET contentDetectionData == detectReferenceDataType(rawReferenceData)
    IN  [cls |-> "Object",
         isPubW |-> contentDetectionData.isPubW,
         isPubNwtsty |-> contentDetectionData.isPubNwtsty,
         parsedContent |-> pickAndApplyParsingLogic(contentDetectionData, rawReferenceData.content)]

\* parseAnchorRefDataOrThrow(fetchedReferenceJson)
parseAnchorRefDataOrThrow(json) ==
    LET a == isJsonContentAcceptableForReferenceExtraction(json)
    IN  IF a.threw THEN Throw(TypeError(MSG_UNDEFINED))
        ELSE IF ~a.valid THEN Throw(Error(MSG_BAD_JSON))
        ELSE Return(buildPublicationRefData(json.items[1]))

\* fetchAnchorReferenceData(anchorRefExtractionData), given what
\* getJsonContent resolves to for the fetch URL
fetchAnchorReferenceData(resp) ==
    withErrorHandling(IF ~resp.ok THEN Return(Error(resp.errMsg))
                      ELSE Return([cls |-> "Object", json |-> resp.json]))

\* fetchAndParseAnchorReferenceOrThrow($anchor)
fetchAndParseAnchorReferenceOrThrow(resp) ==
    LET t == fetchAnchorReferenceData(resp).val
    IN  withErrorHandling(IF Truthy(t.err) THEN Return(t.err)
                          ELSE parseAnchorRefDataOrThrow(t.res.json))

-----------------------------------------------------------------------------
(* Documents: the children of .bodyTxt, in document order.  A selection is *)
(* a sequence of positions of that list.                                   *)

El(tag, id, classes, h2) == [tag |-> tag, id |-> id, classes |-> classes, h2 |-> h2]

Positions(body) == [i \in 1..Len(body) |-> i]

\* $(selector) for the selectors of constants.mjs
STARTING_SONG(body) == SelectSeq(Positions(body), LAMBDA i : body[i].id = "p3")
MIDDLE_SONG(body) ==
    SelectSeq(Positions(body), LAMBDA i : "dc-icon--music" \in body[i].classes /\ i # 1)
FINAL_SONG(body) ==
    SelectSeq(Positions(body), LAMBDA i : body[i].tag = "h3" /\ i = Len(body))
TREASURES_TALK(body) == SelectSeq(Positions(body), LAMBDA i : body[i].id = "tt8")
FIELD_MINISTRY_HEADLINE(body) ==
    SelectSeq(Positions(body), LAMBDA i : "dc-icon--wheat" \in body[i].classes)
CHRISTIAN_LIVING_HEADLINE(body) ==
    SelectSeq(Positions(body), LAMBDA i : "dc-icon--sheep" \in body[i].classes)

\* a set of positions in document order / in reverse document order
RECURSIVE SortAsc(_)
SortAsc(S) ==
    IF S = {} THEN <<>>
    ELSE LET m == CHOOSE x \in S : \A y \in S : x <= y
         IN  <<m>> \o SortAsc(S \ {m})
RECURSIVE SortDesc(_)
SortDesc(S) ==
    IF S = {} THEN <<>>
    ELSE LET m == CHOOSE x \in S : \A y \in S : x >= y
         IN  <<m>> \o SortDesc(S \ {m})

\* Array.from(new Set(elems)): the first occurrence of each element is kept
RECURSIVE RemoveDuplicates(_)
RemoveDuplicates(q) ==
    IF q = <<>> THEN <<>>
    ELSE LET front == RemoveDuplicates(SubSeq(q, 1, Len(q) - 1))
         IN  IF q[Len(q)] \in Range(front) THEN front ELSE Append(front, q[Len(q)])

\* the following siblings of position i, up to the first one that is in until
RECURSIVE NextRun(_, _, _)
NextRun(body, i, until) ==
    IF i + 1 > Len(body) \/ (i + 1) \in Range(until) THEN <<>>
    ELSE <<i + 1>> \o NextRun(body, i + 1, until)

\* the preceding siblings of position i, closest first, up to the first one in until
RECURSIVE PrevRun(_, _)
PrevRun(i, until) ==
    IF i - 1 < 1 \/ (i - 1) \in Range(until) THEN <<>>
    ELSE <<i - 1>> \o PrevRun(i - 1, until)

\* selection.nextUntil(until): the runs of all elements of the selection
RECURSIVE NextRuns(_, _, _)
NextRuns(body, sel, until) ==
    IF sel = <<>> THEN <<>>
    ELSE NextRun(body, sel[1], until) \o NextRuns(body, Tail(sel), until)
nextUntil(body, sel, until) == RemoveDuplicates(NextRuns(body, sel, until))

\* selection.prevUntil(until)
RECURSIVE PrevRuns(_, _)
PrevRuns(sel, until) ==
    IF sel = <<>> THEN <<>>
    ELSE PrevRun(sel[1], until) \o PrevRuns(Tail(sel), until)
prevUntil(sel, until) == RemoveDuplicates(PrevRuns(sel, until))

\* selection.prevAll('h3'): the preceding h3 siblings, closest first
prevAllH3(body, sel) ==
    SortDesc({p \in 1..Len(body) : body[p].tag = "h3" /\ \E i \in Range(sel) : p < i})

\* selection.first(), selection.slice(from, to), selection.add(other)
first(sel) == SliceTo(sel, 1)
slice(sel, from, to) == SubSeq(sel, from + 1, IF to < Len(sel) THEN to ELSE Len(sel))
add(sel, other) == SortAsc(Range(sel) \cup Range(other))

\* selection.is('h3'): some element of the selection is an h3
isH3(body, sel) == \E i \in Range(sel) : body[i].tag = "h3"

\* selection.find('> h2').length
RECURSIVE findH2Length(_, _)
findH2Length(body, sel) ==
    IF sel = <<>> THEN 0 ELSE body[sel[1]].h2 + findH2Length(body, Tail(sel))

-----------------------------------------------------------------------------
(* Selection-group builder (pub_mwb_program_selection_groups.mjs)          *)

MSG_NOT_H3 == "Unexpected element detected. Expected h3, got "
MSG_HEADLINES == "Unexpected number of elements for field ministry and christian living."
MSG_POINTS == "Unexpected number of elements for points 2 and 3. Expected 4, got "

\* assertIsH3(selection); selection[0].name of an empty selection is a TypeError
assertIsH3(body, sel) ==
    IF isH3(body, sel) THEN Return(Null)
    ELSE IF sel = <<>> THEN Throw(TypeError(MSG_UNDEFINED))
    ELSE Throw(Error(MSG_NOT_H3 \o body[sel[1]].tag))

\* assertHeadlineDOMStructure(fieldMinistryHeadline, christianLivingHeadline)
assertHeadlineDOMStructure(body, fieldMinistryHeadline, christianLivingHeadline) ==
    IF findH2Length(body, fieldMinistryHeadline) # 1
       \/ findH2Length(body, christianLivingHeadline) # 1
    THEN Throw(Error(MSG_HEADLINES))
    ELSE Return(Null)

\* getAndValidateSongSelections($)
getAndValidateSongSelections(body) ==
    LET startingSong == STARTING_SONG(body)
        middleSong == MIDDLE_SONG(body)
        closingSong == FINAL_SONG(body)
    IN  IF assertIsH3(body, startingSong).kind = "throw" THEN assertIsH3(body, startingSong)
        ELSE IF assertIsH3(body, middleSong).kind = "throw" THEN assertIsH3(body, middleSong)
        ELSE IF assertIsH3(body, closingSong).kind = "throw" THEN assertIsH3(body, closingSong)
        ELSE Return([cls |-> "Object",
                     songs |-> <<startingSong, middleSong, closingSong>>,
                     startingSong |-> startingSong,
                     middleSong |-> middleSong,
                     closingSong |-> closingSong])

\* The span check that only rejects spans that are too short.
getAndValidateGodsTreasuresSelections_AtLeast4(body, fieldMinistryHeadline) ==
    LET treasuresTalk == TREASURES_TALK(body)
        points2and3 == nextUntil(body, treasuresTalk, fieldMinistryHeadline)
    IN  IF Len(points2and3) < 4
        THEN Throw(Error(MSG_POINTS \o ToString(Len(points2and3))))
        ELSE Return([cls |-> "Object",
                     treasuresTalk |-> treasuresTalk,
                     spiritualGems |-> slice(points2and3, 0, 2),
                     bibleRead |-> slice(points2and3, 2, 4)])

\* getAndValidateGodsTreasuresSelections($, fieldMinistryHeadline)
getAndValidateGodsTreasuresSelections(body, fieldMinistryHeadline) ==
    LET treasuresTalk == TREASURES_TALK(body)
        points2and3 == nextUntil(body, treasuresTalk, fieldMinistryHeadline)
    IN  IF Len(points2and3) # 4
        THEN Throw(Error(MSG_POINTS \o ToString(Len(points2and3))))
        ELSE Return([cls |-> "Object",
                     treasuresTalk |-> treasuresTalk,
                     spiritualGems |-> slice(points2and3, 0, 2),
                     bibleRead |-> slice(points2and3, 2, 4)])

\* buildAndValidateHeadlineSelections($)
buildAndValidateHeadlineSelections(body) ==
    LET fieldMinistryHeadline == FIELD_MINISTRY_HEADLINE(body)
        christianLivingHeadline == CHRISTIAN_LIVING_HEADLINE(body)
        a == assertHeadlineDOMStructure(body, fieldMinistryHeadline, christianLivingHeadline)
    IN  IF a.kind = "throw" THEN a
        ELSE Return([cls |-> "Object",
                     fieldMinistryHeadline |-> fieldMinistryHeadline,
                     christianLivingHeadline |-> christianLivingHeadline])

\* buildGodsTreasuresSelections($)
buildGodsTreasuresSelections(body) ==
    LET h == buildAndValidateHeadlineSelections(body)
    IN  IF h.kind = "throw" THEN h
        ELSE getAndValidateGodsTreasuresSelections(body, h.val.fieldMinistryHeadline)

\* getAndValidateChristianLivingSelections($, middleSong, closingSong)
getAndValidateChristianLivingSelections(body, middleSong, closingSong) ==
    LET bibleStudyHeadline == first(prevAllH3(body, closingSong))
        a == assertIsH3(body, bibleStudyHeadline)
        christianLiving == nextUntil(body, middleSong, bibleStudyHeadline)
        bibleStudySiblings == prevUntil(closingSong, bibleStudyHeadline)
        bibleStudy == add(bibleStudySiblings, bibleStudyHeadline)
    IN  IF a.kind = "throw" THEN a
        ELSE Return([cls |-> "Object",
                     christianLiving |-> christianLiving,
                     bibleStudy |-> bibleStudy])

\* buildChristianLivingSelections($)
buildChristianLivingSelections(body) ==
    LET s == getAndValidateSongSelections(body)
    IN  IF s.kind = "throw" THEN s
        ELSE getAndValidateChristianLivingSelections(body, s.val.middleSong, s.val.closingSong)

\* getAndValidateFieldMinistrySelection(fieldMinistryHeadline, christianLivingHeadline)
getAndValidateFieldMinistrySelection(body, fieldMinistryHeadline, christianLivingHeadline) ==
    [fieldMinistry |-> nextUntil(body, fieldMinistryHeadline, christianLivingHeadline)]

\* buildFieldMinistrySelections($)
buildFieldMinistrySelections(body) ==
    LET h == buildAndValidateHeadlineSelections(body)
    IN  IF h.kind = "throw" THEN h
        ELSE Return([cls |-> "Object",
                     fieldMinistry |->
                        getAndValidateFieldMinistrySelection(body,
                            h.val.fieldMinistryHeadline,
                            h.val.christianLivingHeadline).fieldMinistry])

\* buildRelevantProgramGroupSelections($)
buildRelevantProgramGroupSelections(body) ==
    LET h == buildAndValidateHeadlineSelections(body)
        s == getAndValidateSongSelections(body)
        g == getAndValidateGodsTreasuresSelections(body, h.val.fieldMinistryHeadline)
        f == getAndValidateFieldMinistrySelection(body, h.val.fieldMinistryHeadline,
                                                  h.val.christianLivingHeadline)
        c == getAndValidateChristianLivingSelections(body, s.val.middleSong, s.val.closingSong)
    IN  IF h.kind = "throw" THEN h
        ELSE IF s.kind = "throw" THEN s
        ELSE IF g.kind = "throw" THEN g
        ELSE IF c.kind = "throw" THEN c
        ELSE Return([cls |-> "Object",
                     introduction |-> SelectSeq(Positions(body), LAMBDA i : body[i].id = "p3"),
                     songs |-> s.val.songs,
                     startingSong |-> s.val.startingSong,
                     treasuresTalk |-> g.val.treasuresTalk,
                     spiritualGems |-> g.val.spiritualGems,
                     bibleRead |-> g.val.bibleRead,
                     fieldMinistry |-> f.fieldMinistry,
                     middleSong |-> s.val.middleSong,
                     christianLiving |-> c.val.christianLiving,
                     bibleStudy |-> c.val.bibleStudy,
                     closingSong |-> s.val.closingSong])

\* the characters of s as one string, as a template literal embeds them
RECURSIVE Str(_)
Str(s) == IF s = <<>> THEN "" ELSE s[1] \o Str(Tail(s))

\* String.prototype.indexOf(sub) + 1, or 0 when sub does not occur
IndexOf(s, sub) ==
    LET at == {i \in 1..(Len(s) - Len(sub) + 1) : SubSeq(s, i, i + Len(sub) - 1) = sub}
    IN  IF at = {} THEN 0 ELSE CHOOSE i \in at : \A j \in at : i <= j

\* String.prototype.replace(sub, by) for a string pattern: the first
\* occurrence only, and by holds no $ pattern
ReplaceFirst(s, sub, by) ==
    LET k == IndexOf(s, sub)
    IN  IF k = 0 THEN s
        ELSE SubSeq(s, 1, k - 1) \o by \o SubSeq(s, k + Len(sub), Len(s))

\* cleanText(txt): trimmed, every no-break space made a space
cleanText(txt) == [i \in DOMAIN Trim(txt) |-> IF Trim(txt)[i] = NBSP THEN " " ELSE Trim(txt)[i]]

-----------------------------------------------------------------------------
(* Section extractors (pub_mwb_scraper.mjs)                                *)

MSG_NO_INPUT == "No HTML or Cheerio object provided"
MSG_NO_P2_ANCHORS == "No selection found for selector [#p2 a]"

\* the values of the fields of an extraction input: a parsed document ($),
\* the html of a document, a selection of elements, a function; an input
\* holds Null in the fields the caller left out
CheerioAPI(doc, by) == [cls |-> "CheerioAPI", doc |-> doc, by |-> by]
Html(doc) == [cls |-> "String", doc |-> doc]
Cheerio(api, by) == [cls |-> "Cheerio", of |-> api, by |-> by]
Function(name) == [cls |-> "Function", name |-> name]

\* cheerio.load(html)
load(html) == CheerioAPI(html.doc, "cheerio.load")

\* selectionBuilder($) for a builder of the caller
callSelectionBuilder(selectionBuilder, api) ==
    IF selectionBuilder.name = "throws" THEN Throw(Error("selection builder failed"))
    ELSE Return(Cheerio(api, selectionBuilder.name))

\* The normalisation that builds the selection whenever there is a builder,
\* a selection of the caller or not.
processExtractionInput_run_BuilderFirst(in, built) ==
    IF ~Truthy(in.cheerio) /\ ~Truthy(in.html)
    THEN [out |-> Throw(Error(MSG_NO_INPUT)), invoked |-> 0]
    ELSE IF Truthy(in.selectionBuilder)
    THEN [out |-> IF built.kind = "throw" THEN built
                  ELSE Return([cls |-> "Object",
                               cheerio |-> IF Truthy(in.cheerio) THEN in.cheerio
                                           ELSE load(in.html),
                               html |-> in.html,
                               selection |-> built.val]),
          invoked |-> 1]
    ELSE [out |-> Return([cls |-> "Object",
                          cheerio |-> IF Truthy(in.cheerio) THEN in.cheerio
                                      ELSE load(in.html),
                          html |-> in.html,
                          selection |-> in.selection]),
          invoked |-> 0]

\* processExtractionInput({$, html, selection, selectionBuilder}), given
\* what selectionBuilder($) settles to: the settlement of the call and the
\* number of times the builder was invoked
processExtractionInput_run(in, built) ==
    IF ~Truthy(in.cheerio) /\ ~Truthy(in.html)
    THEN [out |-> Throw(Error(MSG_NO_INPUT)), invoked |-> 0]
    ELSE IF ~Truthy(in.selection) /\ Truthy(in.selectionBuilder)
    THEN [out |-> IF built.kind = "throw" THEN built
                  ELSE Return([cls |-> "Object",
                               cheerio |-> IF Truthy(in.cheerio) THEN in.cheerio
                                           ELSE load(in.html),
                               html |-> in.html,
                               selection |-> built.val]),
          invoked |-> 1]
    ELSE [out |-> Return([cls |-> "Object",
                          cheerio |-> IF Truthy(in.cheerio) THEN in.cheerio
                                      ELSE load(in.html),
                          html |-> in.html,
                          selection |-> in.selection]),
          invoked |-> 0]

\* processExtractionInput(input) for an input of a caller
processExtractionInput(in) ==
    processExtractionInput_run(
        in, IF Truthy(in.selectionBuilder) /\ (Truthy(in.cheerio) \/ Truthy(in.html))
            THEN callSelectionBuilder(in.selectionBuilder,
                                      IF Truthy(in.cheerio) THEN in.cheerio ELSE load(in.html))
            ELSE Return(Null)).out

Min(a, b) == IF a <= b THEN a ELSE b
Max(a, b) == IF a >= b THEN a ELSE b

\* /\d+:/ matches at position p of s
DigitsColonAt(s, p) ==
    \E q \in p..(Len(s) - 1) :
        /\ \A r \in p..q : IsDigit(s[r])
        /\ s[q + 1] = ":"

\* extractBookNameFromTooltipCaption(caption): /^(.*?)(?=\d+:)/, trimmed
extractBookNameFromTooltipCaption(caption) ==
    IF \E p \in 1..Len(caption) : DigitsColonAt(caption, p)
    THEN LET p == CHOOSE x \in 1..Len(caption) :
                      /\ DigitsColonAt(caption, x)
                      /\ \A y \in 1..(x - 1) : ~DigitsColonAt(caption, y)
         IN  Trim(SubSeq(caption, 1, p - 1))
    ELSE caption

\* The link loop that stops one chapter early.
weeklyLinks_ExclusiveEnd(urlPathForLinks, languageCode, firstChapter, lastChapter) ==
    [c \in 1..(IF lastChapter > firstChapter THEN lastChapter - firstChapter ELSE 0) |->
        LET urlPathParts == Split(urlPathForLinks, "/")
            replaced == [urlPathParts EXCEPT ![Len(urlPathParts)] = NumToStr(firstChapter + c - 1)]
        IN  BASE_URL \o languageCode \o Join(replaced, "/")]

\* the link loop of extractWeeklyBibleRead: one link per chapter of
\* firstChapter..lastChapter, the chapter put in the last path segment
weeklyLinks(urlPathForLinks, languageCode, firstChapter, lastChapter) ==
    [c \in 1..(IF lastChapter >= firstChapter THEN lastChapter - firstChapter + 1 ELSE 0) |->
        LET urlPathParts == Split(urlPathForLinks, "/")
            replaced == [urlPathParts EXCEPT ![Len(urlPathParts)] = NumToStr(firstChapter + c - 1)]
        IN  BASE_URL \o languageCode \o Join(replaced, "/")]

\* The fold that takes book, name and URL from every payload, not the first.
weeklyFold_AlwaysInit(w, raw) ==
    [w EXCEPT !.urlPathForLinks = raw.url,
              !.result = [bookName |-> extractBookNameFromTooltipCaption(raw.caption),
                          bookNumber |-> raw.book,
                          firstChapter |-> Min(w.result.firstChapter, raw.first_chapter),
                          lastChapter |-> Max(w.result.lastChapter, raw.last_chapter),
                          links |-> <<>>]]

\* the loop body of extractWeeklyBibleRead after the type check: the first
\* payload initializes the result, every payload widens the chapter range
weeklyFold(w, raw) ==
    LET first_ == w.urlPathForLinks = <<>>
        r0 == IF first_
              THEN [bookName |-> extractBookNameFromTooltipCaption(raw.caption),
                    bookNumber |-> raw.book,
                    firstChapter |-> raw.first_chapter,
                    lastChapter |-> raw.last_chapter,
                    links |-> <<>>]
              ELSE w.result
    IN  [w EXCEPT !.urlPathForLinks = IF first_ THEN raw.url ELSE @,
                  !.result = [r0 EXCEPT !.firstChapter = Min(r0.firstChapter, raw.first_chapter),
                                        !.lastChapter = Max(r0.lastChapter, raw.last_chapter)]]

\* The type check of the loop body left out.
weeklyCheck_NoTypeCheck(resp) ==
    LET t == fetchAnchorReferenceData(resp).val
        a == isJsonContentAcceptableForReferenceExtraction(t.res.json)
    IN  IF Truthy(t.err) THEN Throw(t.err)
        ELSE IF a.threw THEN Throw(TypeError(MSG_UNDEFINED))
        ELSE IF ~a.valid THEN Throw(Error(MSG_BAD_JSON))
        ELSE Return(Null)

\* the checks of the loop body of extractWeeklyBibleRead on what the fetch
\* of one anchor resolved to
weeklyCheck(resp) ==
    LET t == fetchAnchorReferenceData(resp).val
        a == isJsonContentAcceptableForReferenceExtraction(t.res.json)
    IN  IF Truthy(t.err) THEN Throw(t.err)
        ELSE IF a.threw THEN Throw(TypeError(MSG_UNDEFINED))
        ELSE IF ~a.valid THEN Throw(Error(MSG_BAD_JSON))
        ELSE IF ~detectReferenceDataType(t.res.json.items[1]).isPubNwtsty
        THEN Throw(Error(MSG_UNEXPECTED_REF))
        ELSE Return(Null)

\* a fetch as it is recorded in fetchLog
Fetch(task, anchor, href) ==
    [task |-> task, anchor |-> anchor, url |-> buildAnchorRefExtractionData(href).fetchUrl]

\* The call that requests every anchor before it awaits the first.
extractWeeklyBibleRead_call_AllAtOnce(in) ==
    LET p == processExtractionInput(in)
    IN  IF p.kind = "throw" THEN [st |-> "rejected", out |-> p, issued |-> <<>>]
        ELSE IF in.anchors = <<>>
        THEN [st |-> "rejected", out |-> Throw(Error(MSG_NO_P2_ANCHORS)), issued |-> <<>>]
        ELSE [st |-> "running", out |-> Pending,
              issued |-> [k \in DOMAIN in.anchors |-> Fetch("weeklyBibleRead", k, in.anchors[k])],
              i |-> 1, urlPathForLinks |-> <<>>,
              result |-> [bookName |-> <<>>, bookNumber |-> 0, firstChapter |-> 0,
                          lastChapter |-> 0, links |-> <<>>]]

\* extractWeeklyBibleRead(input) up to its first await: the locals, the
\* settlement so far and the fetches issued
extractWeeklyBibleRead_call(in) ==
    LET p == processExtractionInput(in)
    IN  IF p.kind = "throw" THEN [st |-> "rejected", out |-> p, issued |-> <<>>]
        ELSE IF in.anchors = <<>>
        THEN [st |-> "rejected", out |-> Throw(Error(MSG_NO_P2_ANCHORS)), issued |-> <<>>]
        ELSE [st |-> "running", out |-> Pending,
              issued |-> <<Fetch("weeklyBibleRead", 1, in.anchors[1])>>,
              i |-> 1, urlPathForLinks |-> <<>>,
              result |-> [bookName |-> <<>>, bookNumber |-> 0, firstChapter |-> 0,
                          lastChapter |-> 0, links |-> <<>>]]

\* extractWeeklyBibleRead(input) from the completion of the fetch of anchor
\* w.i to the next await or to the end
extractWeeklyBibleRead_resume(w, in) ==
    LET c == weeklyCheck(in.resps[w.i])
        f == weeklyFold(w, in.resps[w.i].json.items[1])
        languageCode == SliceTo(buildAnchorRefExtractionData(in.anchors[1]).sourceHref, 3)
    IN  IF c.kind = "throw" THEN [w EXCEPT !.st = "rejected", !.out = c, !.issued = <<>>]
        ELSE IF w.i < Len(in.anchors)
        THEN [f EXCEPT !.i = w.i + 1,
                       !.issued = <<Fetch("weeklyBibleRead", w.i + 1, in.anchors[w.i + 1])>>]
        ELSE [f EXCEPT !.st = "fulfilled", !.issued = <<>>,
                       !.out = Return([cls |-> "Object",
                                       bookName |-> f.result.bookName,
                                       bookNumber |-> f.result.bookNumber,
                                       firstChapter |-> f.result.firstChapter,
                                       lastChapter |-> f.result.lastChapter,
                                       links |-> weeklyLinks(f.urlPathForLinks, languageCode,
                                                             f.result.firstChapter,
                                                             f.result.lastChapter)])]

MSG_NO_TIME_BOX == "No selection found for selector [.du-color--textSubdued]"

\* lit occurs in s at position p
HasAt(s, p, lit) == p + Len(lit) - 1 <= Len(s) /\ SubSeq(s, p, p + Len(lit) - 1) = lit

\* The extraction that takes every digit before the first dot.
getSectionNumberFromElement_AllDigits(text) ==
    LET elementText == cleanText(text)
        head == Split(elementText, ".")[1]
    IN  IF ~(/\ Len(elementText) > Len(head) /\ head # <<>>
             /\ \A i \in DOMAIN head : IsDigit(head[i]))
        THEN Throw(Error("Unexpected section number for element [" \o Str(elementText) \o "]."))
        ELSE Return(StrToNum(head))

\* getSectionNumberFromElement($element), on the element's text
getSectionNumberFromElement(text) ==
    LET elementText == cleanText(text)
    IN  IF ~(Len(elementText) >= 2 /\ IsDigit(elementText[1]) /\ elementText[2] = ".")
        THEN Throw(Error("Unexpected section number for element [" \o Str(elementText) \o "]."))
        ELSE Return(StrToNum(Split(elementText, ".")[1]))

\* /\((\d+)\s*mins?\.\)/ matches at position p of s with its digits ending at q
TimeBoxMatch(s, p, q) ==
    /\ s[p] = "("
    /\ q > p /\ q <= Len(s)
    /\ \A d \in (p + 1)..q : IsDigit(s[d])
    /\ \E r \in (q + 1)..Len(s) :
          /\ \A w \in (q + 1)..(r - 1) : IsSpace(s[w])
          /\ HasAt(s, r, <<"m", "i", "n">>)
          /\ HasAt(s, r + 3, <<".", ")">>) \/ HasAt(s, r + 3, <<"s", ".", ")">>)

\* The extraction that gives 0 minutes to a line without a time box.
getTimeBoxFromElement_Default(hasLine, lineText) ==
    LET t == cleanText(lineText)
        ms == {m \in (1..Len(t)) \X (1..Len(t)) : TimeBoxMatch(t, m[1], m[2])}
    IN  IF ~hasLine THEN Throw(Error(MSG_NO_TIME_BOX))
        ELSE IF ms = {} THEN Return(0)
        ELSE LET m == CHOOSE x \in ms : \A y \in ms : x[1] <= y[1]
             IN  Return(StrToNum(SubSeq(t, m[1] + 1, m[2])))

\* getTimeBoxFromElement($selection), on whether the selection holds a line
\* with a time box and on the text of that line
getTimeBoxFromElement(hasLine, lineText) ==
    LET t == cleanText(lineText)
        ms == {m \in (1..Len(t)) \X (1..Len(t)) : TimeBoxMatch(t, m[1], m[2])}
    IN  IF ~hasLine THEN Throw(Error(MSG_NO_TIME_BOX))
        ELSE IF ms = {} THEN Throw(Error(MSG_NO_TIME_BOX))
        ELSE LET m == CHOOSE x \in ms : \A y \in ms : x[1] <= y[1]
             IN  Return(StrToNum(SubSeq(t, m[1] + 1, m[2])))

\* processExtractionInput for an extractor that sets input.selectionBuilder:
\* the selection handed in, or else the one built from the document
processExtractionInput_selection(in, built) ==
    processExtractionInput_run([in EXCEPT !.selectionBuilder = Function("extractor")],
                               built).out

\* the marker a reference gets in the text of its point
FootnoteMarker(footnoteKey) == <<"[", "^">> \o NumToStr(footnoteKey) \o <<"]">>

\* The loop of extractTreasuresTalk with the footnote key starting over in
\* every point.
RECURSIVE treasuresTalkLoop_KeyPerPoint(_, _)
treasuresTalkLoop_KeyPerPoint(t, sel) ==
    IF t.i > Len(sel.points)
    THEN [t EXCEPT !.st = "fulfilled", !.issued = <<>>,
                   !.out = Return([cls |-> "Object",
                                   sectionNumber |-> t.result.sectionNumber,
                                   timeBox |-> t.result.timeBox,
                                   heading |-> t.result.heading,
                                   points |-> t.result.points,
                                   footnotes |-> t.result.footnotes])]
    ELSE IF t.j > Len(sel.points[t.i].refs)
    THEN treasuresTalkLoop_KeyPerPoint(
             [t EXCEPT !.i = t.i + 1, !.j = 1, !.footnoteKey = 0,
                       !.result.points = Append(@, [text |-> t.pointText,
                                                    footnotes |-> t.talkPoint]),
                       !.talkPoint = <<>>,
                       !.pointText = IF t.i + 1 <= Len(sel.points)
                                     THEN cleanText(sel.points[t.i + 1].text) ELSE <<>>],
             sel)
    ELSE LET ref == sel.points[t.i].refs[t.j]
             refText == cleanText(ref.text)
         IN  [t EXCEPT !.footnoteKey = t.footnoteKey + 1,
                       !.pointText = ReplaceFirst(t.pointText, refText,
                                                  refText \o FootnoteMarker(t.footnoteKey + 1)),
                       !.issued = <<Fetch("treasuresTalk", t.footnoteKey + 1, ref.href)>>]

\* the loops of extractTreasuresTalk over the points and over the
\* references of a point, from point t.i and reference t.j on, up to the
\* next await or to the end
RECURSIVE treasuresTalkLoop(_, _)
treasuresTalkLoop(t, sel) ==
    IF t.i > Len(sel.points)
    THEN [t EXCEPT !.st = "fulfilled", !.issued = <<>>,
                   !.out = Return([cls |-> "Object",
                                   sectionNumber |-> t.result.sectionNumber,
                                   timeBox |-> t.result.timeBox,
                                   heading |-> t.result.heading,
                                   points |-> t.result.points,
                                   footnotes |-> t.result.footnotes])]
    ELSE IF t.j > Len(sel.points[t.i].refs)
    THEN treasuresTalkLoop(
             [t EXCEPT !.i = t.i + 1, !.j = 1,
                       !.result.points = Append(@, [text |-> t.pointText,
                                                    footnotes |-> t.talkPoint]),
                       !.talkPoint = <<>>,
                       !.pointText = IF t.i + 1 <= Len(sel.points)
                                     THEN cleanText(sel.points[t.i + 1].text) ELSE <<>>],
             sel)
    ELSE LET ref == sel.points[t.i].refs[t.j]
             refText == cleanText(ref.text)
         IN  [t EXCEPT !.footnoteKey = t.footnoteKey + 1,
                       !.pointText = ReplaceFirst(t.pointText, refText,
                                                  refText \o FootnoteMarker(t.footnoteKey + 1)),
                       !.issued = <<Fetch("treasuresTalk", t.footnoteKey + 1, ref.href)>>]

\* The call that requests every reference of the talk before it awaits the
\* first.
extractTreasuresTalk_call_AllAtOnce(in) ==
    LET p == processExtractionInput_selection(
                 in, IF Truthy(in.cheerio) \/ Truthy(in.html)
                     THEN buildGodsTreasuresSelections(in.body) ELSE Return(Null))
        sel == in.talk
        sectionNumber == getSectionNumberFromElement(sel.h3)
        timeBox == getTimeBoxFromElement(sel.hasTimeBoxLine, sel.timeBoxLine)
        RECURSIVE refsOf(_)
        refsOf(points) == IF points = <<>> THEN <<>> ELSE points[1].refs \o refsOf(Tail(points))
        t == treasuresTalkLoop(
                 [st |-> "running", out |-> Pending, issued |-> <<>>,
                  i |-> 1, j |-> 1, footnoteKey |-> 0, talkPoint |-> <<>>,
                  pointText |-> IF sel.points # <<>> THEN cleanText(sel.points[1].text)
                                ELSE <<>>,
                  result |-> [sectionNumber |-> sectionNumber.val,
                              timeBox |-> timeBox.val,
                              heading |-> cleanText(sel.h3),
                              points |-> <<>>,
                              footnotes |-> <<>>]],
                 sel)
    IN  IF p.kind = "throw" THEN [st |-> "rejected", out |-> p, issued |-> <<>>]
        ELSE IF sectionNumber.kind = "throw"
        THEN [st |-> "rejected", out |-> sectionNumber, issued |-> <<>>]
        ELSE IF timeBox.kind = "throw"
        THEN [st |-> "rejected", out |-> timeBox, issued |-> <<>>]
        ELSE IF t.st # "running" THEN t
        ELSE [t EXCEPT !.issued = [g \in DOMAIN refsOf(sel.points) |->
                                      Fetch("treasuresTalk", g, refsOf(sel.points)[g].href)]]

\* extractTreasuresTalk(input) up to its first await
extractTreasuresTalk_call(in) ==
    LET p == processExtractionInput_selection(
                 in, IF Truthy(in.cheerio) \/ Truthy(in.html)
                     THEN buildGodsTreasuresSelections(in.body) ELSE Return(Null))
        sel == in.talk
        sectionNumber == getSectionNumberFromElement(sel.h3)
        timeBox == getTimeBoxFromElement(sel.hasTimeBoxLine, sel.timeBoxLine)
    IN  IF p.kind = "throw" THEN [st |-> "rejected", out |-> p, issued |-> <<>>]
        ELSE IF sectionNumber.kind = "throw"
        THEN [st |-> "rejected", out |-> sectionNumber, issued |-> <<>>]
        ELSE IF timeBox.kind = "throw"
        THEN [st |-> "rejected", out |-> timeBox, issued |-> <<>>]
        ELSE treasuresTalkLoop(
                 [st |-> "running", out |-> Pending, issued |-> <<>>,
                  i |-> 1, j |-> 1, footnoteKey |-> 0, talkPoint |-> <<>>,
                  pointText |-> IF sel.points # <<>> THEN cleanText(sel.points[1].text)
                                ELSE <<>>,
                  result |-> [sectionNumber |-> sectionNumber.val,
                              timeBox |-> timeBox.val,
                              heading |-> cleanText(sel.h3),
                              points |-> <<>>,
                              footnotes |-> <<>>]],
                 sel)

\* extractTreasuresTalk(input) from the completion of the fetch of reference
\* t.j of point t.i to the next await or to the end
extractTreasuresTalk_resume(t, in) ==
    LET tuple == fetchAndParseAnchorReferenceOrThrow(in.talk.points[t.i].refs[t.j].resp).val
    IN  IF Truthy(tuple.err)
        THEN [t EXCEPT !.st = "rejected", !.out = Throw(tuple.err), !.issued = <<>>]
        ELSE treasuresTalkLoop(
                 [t EXCEPT !.result.footnotes =
                               [k \in (DOMAIN @) \cup {t.footnoteKey} |->
                                   IF k = t.footnoteKey THEN tuple.res.parsedContent ELSE @[k]],
                           !.talkPoint = Append(@, t.footnoteKey),
                           !.j = t.j + 1],
                 in.talk)

MSG_NO_P1 == "No selection found for selector [#p1]"
MSG_SONG_ANCHORS(n) ==
    "Expected 3 song anchors, found [" \o Str(NumToStr(n))
        \o "]. The document structure may have changed."
MSG_SONG_DATA ==
    "The song data extracted from the tooltip is eligible for reference extraction. The document structure may have changed."
MSG_NULL == "Cannot read properties of null"
MSG_GEMS_ANCHOR == "Unexpected number of elements for scripture anchor."
MSG_READ_ANCHORS == "Unexpected number of elements for bible reading anchor."
MSG_STUDY_POINT == "Unable to find study point anchor."

\* a settled or pending promise of an extractor or of one of its mapped
\* functions, with the fetches its last step issued
Settled(st, out) == [st |-> st, out |-> out, issued |-> <<>>]
Rejected(reason) == Settled("rejected", Throw(reason))
Fulfilled(value) == Settled("fulfilled", Return(value))
Awaiting(fetch) == [st |-> "running", out |-> Pending, issued |-> <<fetch>>]

\* Promise.all that waits for every promise to settle before it rejects.
PromiseAll_AllSettled(out, promises) ==
    IF out.kind # "pending" THEN out
    ELSE IF \E k \in DOMAIN promises : promises[k].st = "running" THEN Pending
    ELSE IF \E k \in DOMAIN promises : promises[k].st = "rejected"
    THEN promises[CHOOSE k \in DOMAIN promises :
                      /\ promises[k].st = "rejected"
                      /\ \A j \in 1..(k - 1) : promises[j].st # "rejected"].out
    ELSE Return([cls |-> "Array", items |-> [k \in DOMAIN promises |-> promises[k].out.val]])

\* Promise.all(promises), given its own settlement so far: it rejects with
\* the reason of the promise that rejected, whatever the others do, and
\* fulfills with all the values once every promise has fulfilled
PromiseAll(out, promises) ==
    IF out.kind # "pending" THEN out
    ELSE IF \E k \in DOMAIN promises : promises[k].st = "rejected"
    THEN promises[CHOOSE k \in DOMAIN promises :
                      /\ promises[k].st = "rejected"
                      /\ \A j \in 1..(k - 1) : promises[j].st # "rejected"].out
    ELSE IF \A k \in DOMAIN promises : promises[k].st = "fulfilled"
    THEN Return([cls |-> "Array", items |-> [k \in DOMAIN promises |-> promises[k].out.val]])
    ELSE Pending

\* extractWeekDateSpan(input)
extractWeekDateSpan(in) ==
    LET p == processExtractionInput(in)
    IN  IF p.kind = "throw" THEN p
        ELSE IF ~in.p1.has THEN Throw(Error(MSG_NO_P1))
        ELSE Return([cls |-> "String", chars |-> ToLower(in.p1.text)])

\* text.match(/\d+/): the first run of digits of text, or nothing
FirstDigits(text) ==
    IF \A k \in DOMAIN text : ~IsDigit(text[k]) THEN <<>>
    ELSE LET a == CHOOSE k \in DOMAIN text :
                      IsDigit(text[k]) /\ \A j \in 1..(k - 1) : ~IsDigit(text[j])
             b == CHOOSE k \in a..Len(text) :
                      /\ \A j \in a..k : IsDigit(text[j])
                      /\ k = Len(text) \/ ~IsDigit(text[k + 1])
         IN  SubSeq(text, a, b)

\* parsePubSjj(content): the parsed song, or the TypeError of reading [1]
\* of a match that is null when a parenthesized reference is missing
parsePubSjj(content) ==
    IF content = "song" THEN Return([parser |-> "parsePubSjj", of |-> content])
    ELSE Throw(TypeError(MSG_NULL))

\* fetchAnchorData($anchor), given what the fetch resolves to: the tuple of
\* fetchAnchorReferenceData for the extraction data of the anchor
fetchAnchorData(resp) == fetchAnchorReferenceData(resp)

\* mapAnchorToSongData up to its await
mapAnchorToSongData_call(k, song) ==
    LET text == cleanText(song.text)
    IN  IF FirstDigits(text) = <<>>
        THEN Rejected(Error("Expected song number, found [" \o Str(text)
                              \o "]. The document structure may have changed."))
        ELSE Awaiting(Fetch("song", k, song.href))

\* mapAnchorToSongData from the completion of its fetch on
mapAnchorToSongData_resume(song) ==
    LET tuple == fetchAnchorData(song.resp).val
        a == isJsonContentAcceptableForReferenceExtraction(tuple.res.json)
        songData == parsePubSjj(tuple.res.json.items[1].content)
    IN  IF Truthy(tuple.err) THEN Rejected(tuple.err)
        ELSE IF a.threw THEN Rejected(TypeError(MSG_UNDEFINED))
        ELSE IF ~a.valid THEN Rejected(Error(MSG_SONG_DATA))
        ELSE IF songData.kind = "throw" THEN Rejected(songData.val)
        ELSE Fulfilled([cls |-> "Object",
                        songNumber |-> StrToNum(FirstDigits(cleanText(song.text))),
                        songData |-> songData.val])

\* the fetches a sequence of promises issued in their last step
RECURSIVE Issued(_)
Issued(promises) ==
    IF promises = <<>> THEN <<>> ELSE promises[1].issued \o Issued(Tail(promises))

\* The call whose mapped functions wait for one another: only the fetch of
\* the first song is out when the call returns.
extractSongData_call_FirstOnly(in) ==
    LET p == processExtractionInput_selection(
                 in, IF Truthy(in.cheerio) \/ Truthy(in.html)
                     THEN getAndValidateSongSelections(in.body) ELSE Return(Null))
        promises == [k \in DOMAIN in.songs |-> mapAnchorToSongData_call(k, in.songs[k])]
    IN  IF p.kind = "throw" THEN [st |-> "threw", out |-> p, issued |-> <<>>, promises |-> <<>>]
        ELSE IF Len(in.songs) # 3
        THEN [st |-> "threw", out |-> Throw(Error(MSG_SONG_ANCHORS(Len(in.songs)))), issued |-> <<>>,
              promises |-> <<>>]
        ELSE LET out == PromiseAll(Pending, promises)
             IN  [st |-> IF out.kind = "throw" THEN "rejected" ELSE "running",
                  out |-> out, issued |-> SubSeq(Issued(promises), 1, 1),
                  promises |-> [k \in DOMAIN promises |-> [promises[k] EXCEPT !.issued = <<>>]]]

\* extractSongData(input) up to its return: a throw of the call itself
\* ("threw"), or the promise of Promise.all over the three mapped functions
extractSongData_call(in) ==
    LET p == processExtractionInput_selection(
                 in, IF Truthy(in.cheerio) \/ Truthy(in.html)
                     THEN getAndValidateSongSelections(in.body) ELSE Return(Null))
        promises == [k \in DOMAIN in.songs |-> mapAnchorToSongData_call(k, in.songs[k])]
    IN  IF p.kind = "throw" THEN [st |-> "threw", out |-> p, issued |-> <<>>, promises |-> <<>>]
        ELSE IF Len(in.songs) # 3
        THEN [st |-> "threw", out |-> Throw(Error(MSG_SONG_ANCHORS(Len(in.songs)))), issued |-> <<>>,
              promises |-> <<>>]
        ELSE LET out == PromiseAll(Pending, promises)
             IN  [st |-> IF out.kind = "throw" THEN "rejected" ELSE "running",
                  out |-> out, issued |-> Issued(promises),
                  promises |-> [k \in DOMAIN promises |-> [promises[k] EXCEPT !.issued = <<>>]]]

\* The list of songs filled from its end: the data of song k is put where
\* the k-th song from the end belongs.
extractSongData_resume_FromEnd(t, in, k) ==
    LET promises == [t.promises EXCEPT ![k] =
                        mapAnchorToSongData_resume(in.songs[Len(in.songs) + 1 - k])]
        out == PromiseAll(t.out, promises)
    IN  [st |-> IF out.kind = "throw" THEN "rejected"
                ELSE IF out.kind = "return" THEN "fulfilled" ELSE "running",
         out |-> out, issued |-> <<>>, promises |-> promises]

\* extractSongData(input) when the fetch of song k completes
extractSongData_resume(t, in, k) ==
    LET promises == [t.promises EXCEPT ![k] = mapAnchorToSongData_resume(in.songs[k])]
        out == PromiseAll(t.out, promises)
    IN  [st |-> IF out.kind = "throw" THEN "rejected"
                ELSE IF out.kind = "return" THEN "fulfilled" ELSE "running",
         out |-> out, issued |-> <<>>, promises |-> promises]

\* String.prototype.slice(2, -2)
Slice2(s) == IF Len(s) > 4 THEN SubSeq(s, 3, Len(s) - 2) ELSE <<>>

\* the end of extractSpiritualGems, after its last await
spiritualGemsResult(t, sel) ==
    LET sectionNumber == getSectionNumberFromElement(sel.h3)
        timeBox == getTimeBoxFromElement(sel.hasTimeBoxLine, sel.timeBoxLine)
    IN  IF sectionNumber.kind = "throw" THEN [t EXCEPT !.st = "rejected", !.out = sectionNumber]
        ELSE IF timeBox.kind = "throw" THEN [t EXCEPT !.st = "rejected", !.out = timeBox]
        ELSE [t EXCEPT !.st = "fulfilled",
                       !.out = Return([cls |-> "Object",
                                       sectionNumber |-> sectionNumber.val,
                                       timeBox |-> timeBox.val,
                                       printedQuestionData |-> t.printedQuestionData,
                                       openEndedQuestion |-> cleanText(sel.openEnded)])]

\* extractSpiritualGems(input) up to its first await
extractSpiritualGems_call(in) ==
    LET p == processExtractionInput_selection(
                 in, IF Truthy(in.cheerio) \/ Truthy(in.html)
                     THEN buildGodsTreasuresSelections(in.body) ELSE Return(Null))
        sel == in.gems
        scripture == SelectSeq(sel.anchors, LAMBDA a : a.b)
    IN  IF p.kind = "throw" THEN Rejected(p.val)
        ELSE IF Len(scripture) # 1 THEN Rejected(Error(MSG_GEMS_ANCHOR))
        ELSE [st |-> "running", out |-> Pending,
              issued |-> <<Fetch("spiritualGems", 0, scripture[1].href)>>,
              i |-> 0,
              printedQuestionData |-> [scriptureMnemonic |-> cleanText(scripture[1].text),
                                       scriptureContents |-> [parser |-> "", of |-> ""],
                                       question |-> <<>>,
                                       answerSources |-> <<>>]]

\* extractSpiritualGems(input) from the completion of its outstanding fetch
\* (of the scripture anchor when t.i = 0, of answer source t.i otherwise) to
\* the next await or to the end
extractSpiritualGems_resume(t, in) ==
    LET sel == in.gems
        scripture == SelectSeq(sel.anchors, LAMBDA a : a.b)
        answers == Tail(sel.anchors)
        anchor == IF t.i = 0 THEN scripture[1] ELSE answers[t.i]
        tuple == fetchAndParseAnchorReferenceOrThrow(anchor.resp).val
        u == IF t.i = 0
             THEN [t EXCEPT !.printedQuestionData.scriptureContents = tuple.res.parsedContent,
                            !.printedQuestionData.question = Slice2(sel.question)]
             ELSE [t EXCEPT !.printedQuestionData.answerSources =
                                Append(@, [contents |-> tuple.res.parsedContent,
                                           mnemonic |-> cleanText(anchor.text)])]
    IN  IF Truthy(tuple.err)
        THEN [t EXCEPT !.st = "rejected", !.out = Throw(tuple.err), !.issued = <<>>]
        ELSE IF t.i < Len(answers)
        THEN [u EXCEPT !.i = t.i + 1,
                       !.issued = <<Fetch("spiritualGems", t.i + 1, answers[t.i + 1].href)>>]
        ELSE spiritualGemsResult([u EXCEPT !.issued = <<>>], sel)

\* extractBibleRead(input) up to its first await
extractBibleRead_call(in) ==
    LET p == processExtractionInput_selection(
                 in, IF Truthy(in.cheerio) \/ Truthy(in.html)
                     THEN buildGodsTreasuresSelections(in.body) ELSE Return(Null))
        sel == in.read
        sectionNumber == getSectionNumberFromElement(sel.h3)
        timeBox == getTimeBoxFromElement(sel.hasTimeBoxLine, sel.timeBoxLine)
    IN  IF p.kind = "throw" THEN Rejected(p.val)
        ELSE IF sectionNumber.kind = "throw" THEN Rejected(sectionNumber.val)
        ELSE IF timeBox.kind = "throw" THEN Rejected(timeBox.val)
        ELSE IF Len(sel.anchors) # 2 THEN Rejected(Error(MSG_READ_ANCHORS))
        ELSE [st |-> "running", out |-> Pending,
              issued |-> <<Fetch("bibleRead", 1, sel.anchors[1].href)>>,
              i |-> 1,
              result |-> [sectionNumber |-> sectionNumber.val,
                          timeBox |-> timeBox.val,
                          scriptureMnemonic |-> <<>>,
                          scriptureContents |-> [parser |-> "", of |-> ""],
                          studyPoint |-> [mnemonic |-> <<>>,
                                          contents |-> [parser |-> "", of |-> ""]]]]

\* The extractor that requests the reference again when its fetch failed.
extractBibleRead_resume_Retry(t, in) ==
    LET sel == in.read
        tuple == fetchAndParseAnchorReferenceOrThrow(sel.anchors[t.i].resp).val
    IN  IF Truthy(tuple.err) /\ ~sel.anchors[t.i].resp.ok
        THEN [t EXCEPT !.issued = <<Fetch("bibleRead", t.i, sel.anchors[t.i].href)>>]
        ELSE IF Truthy(tuple.err)
        THEN [t EXCEPT !.st = "rejected", !.out = Throw(tuple.err), !.issued = <<>>]
        ELSE IF t.i = 1
        THEN [t EXCEPT !.i = 2,
                       !.issued = <<Fetch("bibleRead", 2, sel.anchors[2].href)>>,
                       !.result.scriptureMnemonic = cleanText(sel.anchors[1].text),
                       !.result.scriptureContents = tuple.res.parsedContent,
                       !.result.studyPoint.mnemonic = cleanText(sel.anchors[2].text)]
        ELSE [t EXCEPT !.st = "fulfilled", !.issued = <<>>,
                       !.out = Return([cls |-> "Object",
                                       sectionNumber |-> t.result.sectionNumber,
                                       timeBox |-> t.result.timeBox,
                                       scriptureMnemonic |-> t.result.scriptureMnemonic,
                                       scriptureContents |-> t.result.scriptureContents,
                                       studyPoint |-> [mnemonic |-> t.result.studyPoint.mnemonic,
                                                       contents |-> tuple.res.parsedContent]])]

\* extractBibleRead(input) from the completion of the fetch of anchor t.i to
\* the next await or to the end
extractBibleRead_resume(t, in) ==
    LET sel == in.read
        tuple == fetchAndParseAnchorReferenceOrThrow(sel.anchors[t.i].resp).val
    IN  IF Truthy(tuple.err)
        THEN [t EXCEPT !.st = "rejected", !.out = Throw(tuple.err), !.issued = <<>>]
        ELSE IF t.i = 1
        THEN [t EXCEPT !.i = 2,
                       !.issued = <<Fetch("bibleRead", 2, sel.anchors[2].href)>>,
                       !.result.scriptureMnemonic = cleanText(sel.anchors[1].text),
                       !.result.scriptureContents = tuple.res.parsedContent,
                       !.result.studyPoint.mnemonic = cleanText(sel.anchors[2].text)]
        ELSE [t EXCEPT !.st = "fulfilled", !.issued = <<>>,
                       !.out = Return([cls |-> "Object",
                                       sectionNumber |-> t.result.sectionNumber,
                                       timeBox |-> t.result.timeBox,
                                       scriptureMnemonic |-> t.result.scriptureMnemonic,
                                       scriptureContents |-> t.result.scriptureContents,
                                       studyPoint |-> [mnemonic |-> t.result.studyPoint.mnemonic,
                                                       contents |-> tuple.res.parsedContent]])]

\* /\(.*?\).*?\(.*?\)/.test(text): two parenthesized parts, on one line
IsStudentTaskText(text) ==
    \E a, b, c, d \in DOMAIN text :
        /\ a < b /\ b < c /\ c < d
        /\ text[a] = "(" /\ text[b] = ")" /\ text[c] = "(" /\ text[d] = ")"
        /\ \A k \in a..d : text[k] # "\n"

\* extractBetweenParentheses(text): /\)\s*\s*(.*?)\s*(?=\s*\()/ at the
\* leftmost ")" it matches from. The lazy group stops before the first "("
\* that follows and holds no line break, while the white space around it may:
\* the match is what stands between the two, without the white space around
\* it, when that has no line break; without a match the text is returned.
extractBetweenParentheses(text) ==
    LET NextOpen(a) == CHOOSE x \in (a + 1)..Len(text) :
                           text[x] = "(" /\ \A y \in (a + 1)..(x - 1) : text[y] # "("
        starts == {a \in DOMAIN text :
                      /\ text[a] = ")"
                      /\ \E b \in (a + 1)..Len(text) : text[b] = "("
                      /\ LET group == Trim(SubSeq(text, a + 1, NextOpen(a) - 1))
                         IN  \A k \in DOMAIN group : group[k] # "\n"}
    IN  IF starts = {} THEN text
        ELSE LET a == CHOOSE x \in starts : \A y \in starts : x <= y
             IN  Trim(SubSeq(text, a + 1, NextOpen(a) - 1))

\* The grouping that puts every element that is no heading into the first
\* group.
RECURSIVE buildHeadlineToContentGroups_FirstGroup(_, _)
buildHeadlineToContentGroups_FirstGroup(elements, acc) ==
    IF elements = <<>> THEN acc
    ELSE buildHeadlineToContentGroups_FirstGroup(
             Tail(elements),
             IF elements[1].tag = "h3"
             THEN Append(acc, [heading |-> elements[1], contents |-> <<>>])
             ELSE IF acc = <<>> THEN acc
             ELSE [acc EXCEPT ![1].contents = Append(@, elements[1])])

\* buildHeadlineToContentGroups(selection, $), from the groups made so far:
\* an h3 opens a group, any other element joins the last group, if any
RECURSIVE buildHeadlineToContentGroups(_, _)
buildHeadlineToContentGroups(elements, acc) ==
    IF elements = <<>> THEN acc
    ELSE buildHeadlineToContentGroups(
             Tail(elements),
             IF elements[1].tag = "h3"
             THEN Append(acc, [heading |-> elements[1], contents |-> <<>>])
             ELSE IF acc = <<>> THEN acc
             ELSE [acc EXCEPT ![Len(acc)].contents = Append(@, elements[1])])

\* The mapped function returning the assignment as it stands when the
\* study point anchor is not found.
fieldMinistryAssignment_call_NoAnchorNoFailure(k, group) ==
    LET assignmentContents == group.contents[1]
        contentsText == cleanText(assignmentContents.text)
        sectionNumber == getSectionNumberFromElement(group.heading.text)
        timeBox == getTimeBoxFromElement(assignmentContents.hasTimeBoxLine,
                                         assignmentContents.timeBoxLine)
        isStudentTask == IsStudentTaskText(contentsText)
        result == [cls |-> "Object",
                   sectionNumber |-> sectionNumber.val,
                   timeBox |-> timeBox.val,
                   isStudentTask |-> isStudentTask,
                   headline |-> SliceFrom(cleanText(group.heading.text), 3),
                   contents |-> contentsText,
                   studyPoint |-> [cls |-> "Null"]]
    IN  IF group.contents = <<>> THEN Rejected(TypeError(MSG_UNDEFINED))
        ELSE IF sectionNumber.kind = "throw" THEN Rejected(sectionNumber.val)
        ELSE IF timeBox.kind = "throw" THEN Rejected(timeBox.val)
        ELSE IF ~isStudentTask THEN Fulfilled(result)
        ELSE IF assignmentContents.anchors = <<>> THEN Fulfilled(result)
        ELSE Awaiting(Fetch("fieldMinistry", k,
                            assignmentContents.anchors[Len(assignmentContents.anchors)].href))

\* the mapped function of extractFieldMinistry up to its await
fieldMinistryAssignment_call(k, group) ==
    LET assignmentContents == group.contents[1]
        contentsText == cleanText(assignmentContents.text)
        sectionNumber == getSectionNumberFromElement(group.heading.text)
        timeBox == getTimeBoxFromElement(assignmentContents.hasTimeBoxLine,
                                         assignmentContents.timeBoxLine)
        isStudentTask == IsStudentTaskText(contentsText)
        result == [cls |-> "Object",
                   sectionNumber |-> sectionNumber.val,
                   timeBox |-> timeBox.val,
                   isStudentTask |-> isStudentTask,
                   headline |-> SliceFrom(cleanText(group.heading.text), 3),
                   contents |-> contentsText,
                   studyPoint |-> [cls |-> "Null"]]
    IN  IF group.contents = <<>> THEN Rejected(TypeError(MSG_UNDEFINED))
        ELSE IF sectionNumber.kind = "throw" THEN Rejected(sectionNumber.val)
        ELSE IF timeBox.kind = "throw" THEN Rejected(timeBox.val)
        ELSE IF ~isStudentTask THEN Fulfilled(result)
        ELSE IF assignmentContents.anchors = <<>> THEN Rejected(Error(MSG_STUDY_POINT))
        ELSE Awaiting(Fetch("fieldMinistry", k,
                            assignmentContents.anchors[Len(assignmentContents.anchors)].href))

\* the mapped function of extractFieldMinistry from the completion of its
\* fetch on
fieldMinistryAssignment_resume(group) ==
    LET assignmentContents == group.contents[1]
        contentsText == cleanText(assignmentContents.text)
        anchor == assignmentContents.anchors[Len(assignmentContents.anchors)]
        tuple == fetchAndParseAnchorReferenceOrThrow(anchor.resp).val
    IN  IF Truthy(tuple.err) THEN Rejected(tuple.err)
        ELSE Fulfilled([cls |-> "Object",
                        sectionNumber |-> getSectionNumberFromElement(group.heading.text).val,
                        timeBox |-> getTimeBoxFromElement(assignmentContents.hasTimeBoxLine,
                                                          assignmentContents.timeBoxLine).val,
                        isStudentTask |-> TRUE,
                        headline |-> SliceFrom(cleanText(group.heading.text), 3),
                        contents |-> extractBetweenParentheses(contentsText),
                        studyPoint |-> [cls |-> "Object",
                                        mnemonic |-> cleanText(anchor.text),
                                        contents |-> tuple.res.parsedContent]])

\* extractFieldMinistry(input) up to the first await of its mapped
\* functions: the promise of Promise.all over them
extractFieldMinistry_call(in) ==
    LET p == processExtractionInput_selection(
                 in, IF Truthy(in.cheerio) \/ Truthy(in.html)
                     THEN buildFieldMinistrySelections(in.body) ELSE Return(Null))
        assignmentGroups == buildHeadlineToContentGroups(in.fieldMinistry, <<>>)
        promises == [k \in DOMAIN assignmentGroups |->
                        fieldMinistryAssignment_call(k, assignmentGroups[k])]
        out == PromiseAll(Pending, promises)
    IN  IF p.kind = "throw"
        THEN [st |-> "rejected", out |-> p, issued |-> <<>>, promises |-> <<>>]
        ELSE [st |-> IF out.kind = "throw" THEN "rejected"
                     ELSE IF out.kind = "return" THEN "fulfilled" ELSE "running",
              out |-> out, issued |-> Issued(promises),
              promises |-> [k \in DOMAIN promises |-> [promises[k] EXCEPT !.issued = <<>>]]]

\* extractFieldMinistry(input) when the fetch of assignment k completes
extractFieldMinistry_resume(t, in, k) ==
    LET assignmentGroups == buildHeadlineToContentGroups(in.fieldMinistry, <<>>)
        promises == [t.promises EXCEPT ![k] = fieldMinistryAssignment_resume(assignmentGroups[k])]
        out == PromiseAll(t.out, promises)
    IN  [st |-> IF out.kind = "throw" THEN "rejected"
                ELSE IF out.kind = "return" THEN "fulfilled" ELSE "running",
         out |-> out, issued |-> <<>>, promises |-> promises]

\* collapseConsecutiveLineBreaks(txt)
RECURSIVE collapseConsecutiveLineBreaks(_)
collapseConsecutiveLineBreaks(txt) ==
    IF Len(txt) < 2 THEN txt
    ELSE IF txt[1] = "\n" /\ txt[2] = "\n" THEN collapseConsecutiveLineBreaks(Tail(txt))
    ELSE <<txt[1]>> \o collapseConsecutiveLineBreaks(Tail(txt))

\* takeOutTimeBoxText(text): the lines joined, what follows the first ")"
takeOutTimeBoxText(lines) ==
    LET text == Join(lines, "\n")
    IN  Trim(Join(Tail(Split(text, ")")), ")"))

\* the sections of extractChristianLiving from section k on: the first
\* failure, or the records of all
RECURSIVE christianLivingSections(_, _)
christianLivingSections(sections, k) ==
    IF k > Len(sections) THEN Return([cls |-> "Array", items |-> <<>>])
    ELSE LET g == sections[k]
             sectionNumber == getSectionNumberFromElement(g.heading.text)
             timeBox == getTimeBoxFromElement(g.contents[1].hasTimeBoxLine,
                                              g.contents[1].timeBoxLine)
             rest == christianLivingSections(sections, k + 1)
         IN  IF sectionNumber.kind = "throw" THEN sectionNumber
             ELSE IF g.contents = <<>> THEN Throw(TypeError(MSG_UNDEFINED))
             ELSE IF timeBox.kind = "throw" THEN timeBox
             ELSE IF rest.kind = "throw" THEN rest
             ELSE Return([cls |-> "Array",
                          items |-> <<[sectionNumber |-> sectionNumber.val,
                                       timeBox |-> timeBox.val,
                                       contents |-> takeOutTimeBoxText(
                                           [c \in DOMAIN g.contents |->
                                               collapseConsecutiveLineBreaks(
                                                   cleanText(g.contents[c].text))])]>>
                                    \o rest.val.items])

\* extractChristianLiving(input)
extractChristianLiving(in) ==
    LET p == processExtractionInput_selection(
                 in, IF Truthy(in.cheerio) \/ Truthy(in.html)
                     THEN buildChristianLivingSelections(in.body) ELSE Return(Null))
    IN  IF p.kind = "throw" THEN p
        ELSE christianLivingSections(buildHeadlineToContentGroups(in.christianLiving, <<>>), 1)

\* extractBibleStudy(input)
extractBibleStudy(in) ==
    LET p == processExtractionInput_selection(
                 in, IF Truthy(in.cheerio) \/ Truthy(in.html)
                     THEN buildChristianLivingSelections(in.body) ELSE Return(Null))
        sel == in.bibleStudy
        sectionNumber == getSectionNumberFromElement(sel.h3)
        timeBox == getTimeBoxFromElement(sel.hasTimeBoxLine, sel.timeBoxLine)
    IN  IF p.kind = "throw" THEN p
        ELSE IF sectionNumber.kind = "throw" THEN sectionNumber
        ELSE IF timeBox.kind = "throw" THEN timeBox
        ELSE Return([cls |-> "Object",
                     sectionNumber |-> sectionNumber.val,
                     timeBox |-> timeBox.val,
                     contents |-> cleanText(sel.text),
                     references |-> [a \in DOMAIN sel.hrefs |-> BASE_URL \o sel.hrefs[a]]])

\* the input an extractor gets from extractFullWeekProgram: the parsed
\* document and the selection of its program group
WithSelection(in) ==
    [in EXCEPT !.cheerio = IF Truthy(@) \/ ~Truthy(in.html) THEN @ ELSE load(in.html),
               !.selection = Cheerio(in.cheerio, "programGroups")]

\* the record extractFullWeekProgram returns, from the values of the
\* synchronous extractions and of the six awaited ones
FullWeekProgramData(weekDateSpan, christianLiving, bibleStudy, awaited) ==
    [cls |-> "Object",
     weekDateSpan |-> weekDateSpan,
     startingSong |-> awaited[1].items[1],
     weeklyBibleReadData |-> awaited[2],
     treasuresTalk |-> awaited[3],
     spiritualGems |-> awaited[4],
     bibleRead |-> awaited[5],
     fieldMinistry |-> awaited[6],
     middleSong |-> awaited[1].items[2],
     christianLiving |-> christianLiving,
     bibleStudy |-> bibleStudy,
     closingSong |-> awaited[1].items[3]]

\* await Promise.all([...]) of extractFullWeekProgram and what follows it,
\* given the settlement of the call so far and the six promises
fullWeekProgramAwait(out, in, promises) ==
    LET all == PromiseAll(out, promises)
    IN  IF out.kind # "pending" THEN out
        ELSE IF all.kind = "return"
        THEN Return(FullWeekProgramData(
                        extractWeekDateSpan(in).val,
                        extractChristianLiving(WithSelection(in)).val,
                        extractBibleStudy(WithSelection(in)).val,
                        all.val.items))
        ELSE all

\* the synchronous extractions of extractFullWeekProgram, in the order of
\* its statements
extractFullWeekProgram_sync(in) ==
    <<processExtractionInput(in),
      buildRelevantProgramGroupSelections(in.body),
      extractWeekDateSpan(in),
      extractChristianLiving(WithSelection(in)),
      extractBibleStudy(WithSelection(in))>>

\* the calls of the six extractors in the array given to Promise.all, each
\* run to its first await
extractFullWeekProgram_fanout(in) ==
    <<extractSongData_call(WithSelection(in)),
      extractWeeklyBibleRead_call(WithSelection(in)),
      extractTreasuresTalk_call(WithSelection(in)),
      extractSpiritualGems_call(WithSelection(in)),
      extractBibleRead_call(WithSelection(in)),
      extractFieldMinistry_call(WithSelection(in))>>

\* the call failed before it reached Promise.all
extractFullWeekProgram_failed(s) ==
    [out |-> s, called |-> FALSE, issued |-> <<>>,
     songs |-> Rejected(Null), weekly |-> Rejected(Null),
     talk |-> Rejected(Null), gems |-> Rejected(Null),
     read |-> Rejected(Null), fm |-> Rejected(Null)]

\* The call that starts the six extractors before it looks at the results of
\* its synchronous extractions: their fetches are out when one of these
\* has thrown.
extractFullWeekProgram_await_FetchFirst(in, steps, six) ==
    IF \E k \in DOMAIN steps : steps[k].kind = "throw"
    THEN [extractFullWeekProgram_failed(
              steps[CHOOSE k \in DOMAIN steps :
                       /\ steps[k].kind = "throw"
                       /\ \A j \in 1..(k - 1) : steps[j].kind # "throw"])
            EXCEPT !.issued = six[1].issued \o six[2].issued \o six[3].issued
                                \o six[4].issued \o six[5].issued \o six[6].issued]
    ELSE IF six[1].st = "threw" THEN extractFullWeekProgram_failed(six[1].out)
    ELSE [out |-> fullWeekProgramAwait(Pending, in, six),
          called |-> TRUE,
          issued |-> six[1].issued \o six[2].issued \o six[3].issued \o six[4].issued
                       \o six[5].issued \o six[6].issued,
          songs |-> six[1], weekly |-> six[2], talk |-> six[3], gems |-> six[4],
          read |-> six[5], fm |-> six[6]]

\* extractFullWeekProgram from the results of its synchronous extractions
\* on: the first one that threw ends the call, and so does extractSongData
\* throwing while the array is built; otherwise the six promises are awaited
extractFullWeekProgram_await(in, steps, six) ==
    IF \E k \in DOMAIN steps : steps[k].kind = "throw"
    THEN extractFullWeekProgram_failed(
             steps[CHOOSE k \in DOMAIN steps :
                      /\ steps[k].kind = "throw"
                      /\ \A j \in 1..(k - 1) : steps[j].kind # "throw"])
    ELSE IF six[1].st = "threw" THEN extractFullWeekProgram_failed(six[1].out)
    ELSE [out |-> fullWeekProgramAwait(Pending, in, six),
          called |-> TRUE,
          issued |-> six[1].issued \o six[2].issued \o six[3].issued \o six[4].issued
                       \o six[5].issued \o six[6].issued,
          songs |-> six[1], weekly |-> six[2], talk |-> six[3], gems |-> six[4],
          read |-> six[5], fm |-> six[6]]

\* extractFullWeekProgram(input) up to its await: the settlement of the
\* call so far, whether the six extractors were called, their promises and
\* the fetches issued
extractFullWeekProgram_call(in) ==
    extractFullWeekProgram_await(in, extractFullWeekProgram_sync(in),
                                 extractFullWeekProgram_fanout(in))

-----------------------------------------------------------------------------
(* Input documents: the page template, varied in a few places              *)

SongKnob == {<<>>, <<"h3">>, <<"div">>, <<"h3", "h3">>, <<"div", "h3">>, <<"h3", "div">>}
HeadlineKnob == {<<>>, <<1>>, <<0>>, <<2>>, <<1, 1>>, <<1, 0>>, <<0, 1>>}

\* start, mid: the tags of the elements matched as starting / middle song;
\* tt: number of #tt8 elements; span: siblings between #tt8 and the field
\* ministry headline; fm, cl: the h2 children of each headline element;
\* closing: the tag of the last child
Knobs ==
    [start : SongKnob, tt : 0..2, span : 0..MaxSpan, fm : HeadlineKnob,
     cl : HeadlineKnob, mid : SongKnob, closing : {"h3", "div"}]

Template ==
    [start |-> <<"h3">>, tt |-> 1, span |-> 4, fm |-> <<1>>,
     cl |-> <<1>>, mid |-> <<"h3">>, closing |-> "h3"]

Deviations(k) ==
    (IF k.start # Template.start THEN 1 ELSE 0) + (IF k.tt # Template.tt THEN 1 ELSE 0)
    + (IF k.span # Template.span THEN 1 ELSE 0) + (IF k.fm # Template.fm THEN 1 ELSE 0)
    + (IF k.cl # Template.cl THEN 1 ELSE 0) + (IF k.mid # Template.mid THEN 1 ELSE 0)
    + (IF k.closing # Template.closing THEN 1 ELSE 0)

Section == <<El("h3", "", {}, 0), El("div", "", {}, 0)>>

DocOf(k) ==
    [i \in 1..Len(k.start) |-> El(k.start[i], "p3", {"dc-icon--music"}, 0)]
    \o <<El("div", "", {"dc-icon--gem"}, 1)>>
    \o [i \in 1..k.tt |-> El("div", "tt8", {}, 0)]
    \o [i \in 1..k.span |-> Section[2 - (i % 2)]]
    \o [i \in 1..Len(k.fm) |-> El("div", "", {"dc-icon--wheat"}, k.fm[i])]
    \o Section
    \o [i \in 1..Len(k.cl) |-> El("div", "", {"dc-icon--sheep"}, k.cl[i])]
    \o [i \in 1..Len(k.mid) |-> El(k.mid[i], "", {"dc-icon--music"}, 0)]
    \o Section
    \o Section
    \o <<El(k.closing, "", {}, 0)>>

Documents == {DocOf(k) : k \in {q \in Knobs : Deviations(q) <= MaxDeviations}}

ResponsePool == {Failed("network"), Failed("status 404")} \cup {Fetched(j) : j \in JsonPool}

\* the language prefixes of the hrefs of a page
Languages == {<<"/", "e", "s">>, <<"/", "e", "n">>}

\* the anchors of a line of a page in one language: their hrefs
Anchors(lang, n) == [i \in 1..n |-> lang \o <<"/", "t", "/">> \o NumToStr(i)]

\* what the collaborator serves for the anchors of the weekly reading line:
\* passages of single chapters and of several, of two books, a failed
\* fetch, a malformed payload and payloads of other publications
WeeklyResponses ==
    {Fetched(Json("array", <<ScriptureItem(1, c, c, Classes_bible)>>)) : c \in {1, 2, MaxChapter}}
    \cup {Fetched(Json("array", <<ScriptureItem(1, 1, 2, Classes_bible)>>)),
          Fetched(Json("array", <<ScriptureItem(2, 1, MaxChapter, Classes_bibleUpper)>>)),
          Failed("network"),
          Fetched(Json("array", <<PublicationItem("", TRUE, Classes_bible)>>)),
          Fetched(Json("array", <<WatchtowerItem>>)),
          Fetched(Json("array", <<InsightItem>>))}

SeqsUpTo(S, n) == UNION {[1..m -> S] : m \in 0..n}

RECURSIVE Sum(_)
Sum(q) == IF q = <<>> THEN 0 ELSE q[1] + Sum(Tail(q))

\* what the collaborator serves for the references of a talk
TalkResponses ==
    {Fetched(Json("array", <<ScriptureItem(1, 1, 1, Classes_bible)>>)),
     Fetched(Json("array", <<WatchtowerItem>>)),
     Failed("network")}

\* the numbers of references of the points of a talk
TalkShapes == {sh \in SeqsUpTo(0..MaxRefs, MaxPoints) : Sum(sh) <= MaxRefs}

\* the g-th reference anchor of a talk: its text names a passage, with a
\* no-break space; the anchors of a talk name different passages or all
\* the same one
TalkRef(g, same, resp) ==
    [text |-> <<"G", NBSP>> \o NumToStr(IF same THEN 1 ELSE g),
     href |-> <<"/", "e", "s", "/", "t", "/">> \o NumToStr(g),
     resp |-> resp]

\* a point (a paragraph) with its reference anchors: its text holds theirs
TalkPoint(refs) ==
    [text |-> <<" ", "s", "e", "e", " ">> \o Join([r \in DOMAIN refs |-> refs[r].text], ";")
              \o <<".", NBSP>>,
     refs |-> refs]

\* the #tt8 element: the text of its h3 child, its line with the time box,
\* its points
TalkElement(h3, hasTimeBoxLine, timeBoxLine, points) ==
    [h3 |-> h3, hasTimeBoxLine |-> hasTimeBoxLine, timeBoxLine |-> timeBoxLine,
     points |-> points]

TalkHeading == <<"1", ".", " ", "T", "a", "l", "k">>
TalkTimeBox == <<"(", "1", "0", NBSP, "m", "i", "n", ".", ")">>

TalkOf(sh, same, rs) ==
    TalkElement(TalkHeading, TRUE, TalkTimeBox,
        [k \in DOMAIN sh |->
            TalkPoint([m \in 1..sh[k] |->
                LET g == Sum(SubSeq(sh, 1, k - 1)) + m IN TalkRef(g, same, rs[g])])])

\* the talks that fail before their points are read
BrokenTalks ==
    {TalkElement(<<"T", "a", "l", "k">>, TRUE, TalkTimeBox, <<>>),
     TalkElement(<<>>, TRUE, TalkTimeBox, <<>>),
     TalkElement(TalkHeading, FALSE, <<>>, <<>>),
     TalkElement(TalkHeading, TRUE, <<"(", "t", "e", "n", " ", "m", "i", "n", ".", ")">>, <<>>)}

-----------------------------------------------------------------------------
(* Landing page retriever (html_retriever.mjs)                             *)

MSG_NO_HREF == "No href found, website structure may have changed"

\* the value of an attribute: a string, or undefined when no element matches
\* or the element has no such attribute
Attr(chars) == [cls |-> "String", chars |-> chars]
NoAttr == [cls |-> "Undefined"]

\* the html of a landing page: what it shows, and the href of its
\* link[hreflang="es"]
LandingHtml(doc, hrefLangEs) == [cls |-> "String", doc |-> doc, hrefLangEs |-> hrefLangEs]

\* getHtmlContent(url), given what the site serves for url: the tuple of
\* the html, or of the Error of the request
getHtmlContent(resp) ==
    IF resp.ok THEN Tuple(Null, resp.json) ELSE Tuple(Error(resp.errMsg), Null)

\* a request of _fetchLandingHtml, the n-th of the call
LandingRequest(n, url) == [task |-> "fetchLandingHtml", anchor |-> n, url |-> url]

\* _fetchLandingHtml() up to its first await
fetchLandingHtml_call ==
    [st |-> "running", out |-> Pending, issued |-> <<LandingRequest(1, BASE_URL)>>,
     awaits |-> "baseUrl", strOrNull |-> Null]

\* _fetchLandingHtml() from the completion of its first request to its
\* second await, or to its return
fetchLandingHtml_base(t, in) ==
    LET tuple == getHtmlContent(in.base)
        hrefLangEs == tuple.res.hrefLangEs
    IN  IF Truthy(tuple.err)
        THEN [t EXCEPT !.st = "fulfilled", !.out = Return(tuple.err), !.issued = <<>>]
        ELSE IF hrefLangEs.cls = "Undefined" \/ hrefLangEs.chars = <<>>
        THEN [t EXCEPT !.st = "fulfilled", !.out = Return(Error(MSG_NO_HREF)),
                       !.issued = <<>>, !.strOrNull = tuple.res]
        ELSE [t EXCEPT !.issued = <<LandingRequest(2, BASE_URL \o hrefLangEs.chars)>>,
                       !.awaits = "landingForLanguage", !.strOrNull = tuple.res]

\* _fetchLandingHtml() from the completion of its second request to its
\* return: html = strOrNull; return html
fetchLandingHtml_language(t, in) ==
    LET tuple == getHtmlContent(in.language)
    IN  IF Truthy(tuple.err)
        THEN [t EXCEPT !.st = "fulfilled", !.out = Return(tuple.err), !.issued = <<>>]
        ELSE [t EXCEPT !.st = "fulfilled", !.out = Return(t.strOrNull), !.issued = <<>>]

-----------------------------------------------------------------------------
(* The calls                                                               *)

Idle == [st |-> "idle"]

BuilderOps ==
    {"getAndValidateSongSelections", "getAndValidateGodsTreasuresSelections",
     "buildRelevantProgramGroupSelections"}

InitWrapper ==
    /\ op = "withErrorHandling"
    /\ \E s \in WrappedSettlements : input = [settles |-> s]

InitResolve ==
    /\ op = "fetchAndParseAnchorReferenceOrThrow"
    /\ \E r \in ResponsePool, lang \in Languages :
          input = [resp |-> r, href |-> Anchors(lang, 1)[1]]

InitBuilder ==
    /\ op \in BuilderOps
    /\ \E d \in Documents : input = [body |-> d]

\* the input of an extractor for the page: with its parsed document, with
\* its html, with a selection of the caller
ExtractionInput(hasCheerio, hasHtml, hasSelection) ==
    [cheerio |-> IF hasCheerio THEN CheerioAPI("page", "caller") ELSE Null,
     html |-> IF hasHtml THEN Html("page") ELSE Null,
     selection |-> IF hasSelection THEN Cheerio(CheerioAPI("page", "caller"), "caller")
                   ELSE Null,
     selectionBuilder |-> Null]

InitWeekly ==
    /\ op = "extractWeeklyBibleRead"
    /\ \/ input = ExtractionInput(FALSE, FALSE, FALSE) @@ [anchors |-> <<>>, resps |-> <<>>]
       \/ \E lang \in Languages, r \in SeqsUpTo(WeeklyResponses, MaxAnchors) :
             input = ExtractionInput(TRUE, FALSE, FALSE)
                         @@ [anchors |-> Anchors(lang, Len(r)), resps |-> r]

\* the anchor of a page whose href ends in g, with what its fetch resolves to
PageAnchor(text, g, resp, b) ==
    [text |-> text, href |-> <<"/", "e", "s", "/", "t", "/">> \o NumToStr(g), resp |-> resp,
     b |-> b]

\* an element of a program group: its tag, its text, its line with the
\* time box, its anchors
SectionElement(tag, text, hasTimeBoxLine, timeBoxLine, anchors) ==
    [tag |-> tag, text |-> text, hasTimeBoxLine |-> hasTimeBoxLine,
     timeBoxLine |-> timeBoxLine, anchors |-> anchors]

SongItem == PublicationItem("song", TRUE, <<"p", "u", "b", "-", "s", "j", "j">>)

\* the fetches of a page: three songs, the weekly reading, a talk
\* reference, the scripture and an answer source of the gems, the two
\* anchors of the reading, the study point of an assignment
SongFetches == 1..3
WeeklyFetch == Cardinality(SongFetches) + 1
TalkFetch == WeeklyFetch + 1
AssignmentFetch == TalkFetch + 5
PageFetches == 1..AssignmentFetch

PageFaults ==
    {"none", "htmlOnly", "noInput", "headline", "p1", "living", "study", "songNumber",
     "weeklyAnchors", "talkSection", "gemsAnchor", "readAnchors", "studyPoint"}

\* the page of a week, with one fault in the page at most and with the
\* fetches of failed failing
PageOf(fault, failed) ==
    LET resp(g, good) == IF g \in failed THEN Failed("network") ELSE Fetched(Json("array", <<good>>))
        scripture == ScriptureItem(1, 1, 2, Classes_bible)
        timeBox == <<"(", "5", " ", "m", "i", "n", ".", ")">>
    IN  ExtractionInput(fault \notin {"noInput", "htmlOnly"}, fault = "htmlOnly", FALSE) @@
        [body |-> DocOf(IF fault = "headline" THEN [Template EXCEPT !.fm = <<>>] ELSE Template),
         p1 |-> [has |-> fault # "p1", text |-> <<"J", "U", "L", "Y", " ", "1">>],
         songs |-> [k \in SongFetches |->
                       PageAnchor(IF fault = "songNumber" /\ k = 2 THEN <<"S">>
                                  ELSE <<"S", NBSP>> \o NumToStr(k),
                                  k, resp(k, SongItem), FALSE)],
         anchors |-> IF fault = "weeklyAnchors" THEN <<>>
                     ELSE <<<<"/", "e", "s", "/", "t", "/">> \o NumToStr(WeeklyFetch)>>,
         resps |-> IF fault = "weeklyAnchors" THEN <<>> ELSE <<resp(WeeklyFetch, scripture)>>,
         talk |-> TalkElement(IF fault = "talkSection" THEN <<"T">> ELSE TalkHeading,
                              TRUE, TalkTimeBox,
                              <<TalkPoint(<<TalkRef(TalkFetch, FALSE,
                                                    resp(TalkFetch, WatchtowerItem))>>)>>),
         gems |-> [h3 |-> <<"2", ".", " ", "G">>, hasTimeBoxLine |-> TRUE,
                   timeBoxLine |-> timeBox,
                   anchors |-> <<PageAnchor(<<"G", " ", "1">>, TalkFetch + 1,
                                            resp(TalkFetch + 1, scripture),
                                            fault # "gemsAnchor"),
                                 PageAnchor(<<"w", "1">>, TalkFetch + 2,
                                            resp(TalkFetch + 2, WatchtowerItem), FALSE)>>,
                   question |-> <<":", " ", "Q", "?", " ", "(">>,
                   openEnded |-> <<"O", "?">>],
         read |-> [h3 |-> <<"3", ".", " ", "R">>, hasTimeBoxLine |-> TRUE,
                   timeBoxLine |-> timeBox,
                   anchors |-> IF fault = "readAnchors"
                               THEN <<PageAnchor(<<"G", " ", "2">>, TalkFetch + 3,
                                                 resp(TalkFetch + 3, scripture), TRUE)>>
                               ELSE <<PageAnchor(<<"G", " ", "2">>, TalkFetch + 3,
                                                 resp(TalkFetch + 3, scripture), TRUE),
                                      PageAnchor(<<"t", "h">>, TalkFetch + 4,
                                                 resp(TalkFetch + 4, InsightItem), FALSE)>>],
         fieldMinistry |->
             <<SectionElement("h3", <<"4", ".", " ", "F">>, FALSE, <<>>, <<>>),
               SectionElement("div", timeBox \o <<" ", "D", "o", " ", "(", "t", "h", ")">>,
                              TRUE, timeBox,
                              IF fault = "studyPoint" THEN <<>>
                              ELSE <<PageAnchor(<<"t", "h">>, AssignmentFetch,
                                                resp(AssignmentFetch, InsightItem), FALSE)>>)>>,
         christianLiving |->
             <<SectionElement("h3", IF fault = "living" THEN <<"L">> ELSE <<"5", ".", " ", "L">>,
                              FALSE, <<>>, <<>>),
               SectionElement("div", timeBox \o <<" ", "N", "\n", "\n", "D">>, TRUE, timeBox,
                              <<>>)>>,
         bibleStudy |-> [h3 |-> <<"6", ".", " ", "B">>, hasTimeBoxLine |-> fault # "study",
                         timeBoxLine |-> timeBox,
                         text |-> <<"6", ".", " ", "B">> \o timeBox,
                         hrefs |-> <<<<"/", "e", "s", "/", "b", "t">>>>]]

Pages ==
    {PageOf(fault, {}) : fault \in PageFaults}
    \cup {PageOf("none", failed) :
              failed \in {f \in SUBSET PageFetches : Cardinality(f) <= MaxFaults}}

\* the bodies of field ministry assignments: a time box and a study point
\* in parentheses, no study point, the study point on a line of its own, a
\* third part in parentheses, nothing between the two parts, no-break spaces
FMTimeBox == <<"(", "5", " ", "m", "i", "n", ".", ")">>
FMStudyPoint == <<"(", "t", "h", ")">>
FMBodies ==
    [student |-> FMTimeBox \o <<" ", "D", "o", " ">> \o FMStudyPoint,
     plain |-> FMTimeBox \o <<" ", "D", "o">>,
     lines |-> FMTimeBox \o <<" ", "D", "o", "\n">> \o FMStudyPoint,
     three |-> FMTimeBox \o <<" ", " ", "D", "o", " ", "(", "x", ")", " ", "y", " ">>
                  \o FMStudyPoint,
     adjacent |-> FMTimeBox \o FMStudyPoint,
     nbsp |-> <<NBSP>> \o FMTimeBox \o <<NBSP, "D", "o", NBSP>> \o FMStudyPoint \o <<" ">>]

\* the content element of an assignment: its body and what the fetch of its
\* anchor, if it has one, resolves to
FMContents ==
    {[body |-> b, anchor |-> "fetched"] : b \in DOMAIN FMBodies}
    \cup {[body |-> "student", anchor |-> a] : a \in {"failed", "malformed", "none"}}
    \cup {[body |-> "plain", anchor |-> "none"]}

\* the assignments of a section: any content first, and then student
\* assignments and assignments without an anchor
FMAssignments ==
    {cs \in SeqsUpTo(FMContents, MaxAssignments) :
        \A k \in 2..Len(cs) : cs[k].body = "student" \/ cs[k].anchor = "none"}

\* the elements of the field ministry section with the assignments cs
FMElements(cs) ==
    [e \in 1..(2 * Len(cs)) |->
        LET k == (e + 1) \div 2
            c == cs[k]
        IN  IF e % 2 = 1
            THEN SectionElement("h3", NumToStr(k + 3) \o <<".", " ", "F">>, FALSE, <<>>, <<>>)
            ELSE SectionElement(
                     "div", FMBodies[c.body], TRUE, FMTimeBox,
                     IF c.anchor = "none" THEN <<>>
                     ELSE <<PageAnchor(
                                <<"t", "h">>, k,
                                CASE c.anchor = "fetched" -> Fetched(Json("array", <<InsightItem>>))
                                  [] c.anchor = "failed" -> Failed("network")
                                  [] OTHER -> Fetched(Json("array", <<NoItem>>)),
                                FALSE)>>)]

\* sections that are not made of headings followed by their contents: an
\* element before the first heading, a heading without contents, a heading
\* without a section number, contents without a time box line
FMOddSections ==
    LET h3 == SectionElement("h3", <<"4", ".", " ", "F">>, FALSE, <<>>, <<>>)
        div == SectionElement("div", FMBodies.plain, TRUE, FMTimeBox, <<>>)
    IN  {<<div, h3, div>>, <<h3>>, <<h3, div, h3>>,
         <<[h3 EXCEPT !.text = <<"F">>], div>>,
         <<h3, [div EXCEPT !.hasTimeBoxLine = FALSE]>>}

InitFieldMinistry ==
    /\ op = "extractFieldMinistry"
    /\ \/ \E cs \in FMAssignments :
             input = ExtractionInput(TRUE, FALSE, TRUE)
                         @@ [body |-> DocOf(Template), fieldMinistry |-> FMElements(cs)]
       \/ \E es \in FMOddSections :
             input = ExtractionInput(TRUE, FALSE, TRUE)
                         @@ [body |-> DocOf(Template), fieldMinistry |-> es]
       \/ \E c \in BOOLEAN, h \in BOOLEAN :
             input = ExtractionInput(c, h, FALSE)
                         @@ [body |-> DocOf(Template),
                             fieldMinistry |-> FMElements(<<[body |-> "student",
                                                             anchor |-> "fetched"]>>)]

\* the inputs of processExtractionInput called on its own: each field left
\* out or provided, the html and the selection of the same document as the
\* parsed document or of another, a builder that returns or throws
InitProcessExtractionInput ==
    /\ op = "processExtractionInput"
    /\ \E c \in {Null, CheerioAPI("page", "caller")},
          h \in {Null, Html("page"), Html("other")},
          s \in {Null, Cheerio(CheerioAPI("page", "caller"), "caller"),
                      Cheerio(CheerioAPI("other", "caller"), "caller")},
          b \in {Null, Function("h1"), Function("throws")} :
          input = [cheerio |-> c, html |-> h, selection |-> s, selectionBuilder |-> b]

\* what the collaborator serves for the anchor of a song
SongResponses ==
    {Fetched(Json("array", <<SongItem>>)), Fetched(Json("array", <<NoItem>>)),
     Failed("network"), Failed("status 404")}

\* extractSongData on a page whose three songs get any of the responses, or
\* with a selection of the caller of two songs or of four
InitSongs ==
    /\ op = "extractSongData"
    /\ \/ \E rs \in [SongFetches -> SongResponses] :
             input = [PageOf("none", {}) EXCEPT
                          !.songs = [k \in SongFetches |->
                                        PageAnchor(<<"S", NBSP>> \o NumToStr(k), k, rs[k], FALSE)]]
       \/ \E n \in {Cardinality(SongFetches) - 1, Cardinality(SongFetches) + 1} :
             input = [PageOf("none", {}) EXCEPT
                          !.selection = Cheerio(CheerioAPI("page", "caller"), "caller"),
                          !.songs = [k \in 1..n |->
                                        PageAnchor(<<"S", NBSP>> \o NumToStr(k), k,
                                                   Fetched(Json("array", <<SongItem>>)), FALSE)]]

\* the extractors of one section that are called on a page of a week
SectionOps ==
    {"extractWeekDateSpan", "extractSongData", "extractSpiritualGems", "extractBibleRead",
     "extractChristianLiving", "extractBibleStudy"}

InitSection ==
    /\ op \in SectionOps
    /\ input \in Pages

\* the anchors of the content of the spiritual gems: n anchors, the one
\* at position at being the scripture anchor (a.b)
GemsAnchors(n, at) ==
    [k \in 1..n |->
        PageAnchor(IF k = at THEN <<"G", " ", "1">> ELSE <<"w">> \o NumToStr(k),
                   TalkFetch + k,
                   Fetched(Json("array", <<IF k = at THEN ScriptureItem(1, 1, 2, Classes_bible)
                                           ELSE WatchtowerItem>>)),
                   k = at)]

\* extractSpiritualGems on a page whose content has the scripture anchor
\* at any position among its anchors
InitGems ==
    /\ op = "extractSpiritualGems"
    /\ \E n \in 1..MaxGemsAnchors : \E at \in 1..n :
          input = [PageOf("none", {}) EXCEPT !.gems.anchors = GemsAnchors(n, at)]

\* what the site serves for the base URL: a failure, or a landing page
\* with no link for the language, with a link without href, with the link
BaseResponses ==
    {Failed("network"), Failed("status 404"),
     Fetched(LandingHtml("base", NoAttr)), Fetched(LandingHtml("base", Attr(<<>>))),
     Fetched(LandingHtml("base", Attr(<<"/", "e", "s">>)))}

\* what the site serves for the URL of the link: a failure, the landing
\* page of the language, or the base landing page again
LanguageResponses ==
    {Failed("network"), Fetched(LandingHtml("es", NoAttr)),
     Fetched(LandingHtml("base", Attr(<<"/", "e", "s">>)))}

InitLanding ==
    /\ op = "fetchLandingHtml"
    /\ \E b \in BaseResponses, l \in LanguageResponses : input = [base |-> b, language |-> l]

\* texts of a line with a time box: the two of the documentation, a
\* non-breaking space, no space and two spaces before the unit, a leading
\* zero, text around the time box, two time boxes, and lines with no time box
TimeBoxLines ==
    {<<"(", "7", " ", "m", "i", "n", "s", ".", ")">>,
     <<"(", "1", "0", " ", "m", "i", "n", ".", ")">>,
     <<"(", "1", "0", NBSP, "m", "i", "n", ".", ")">>,
     <<"(", "7", "m", "i", "n", ".", ")">>,
     <<"(", "7", " ", " ", "m", "i", "n", ".", ")">>,
     <<"(", "0", "7", " ", "m", "i", "n", ".", ")">>,
     <<" ", "a", " ", "(", "3", " ", "m", "i", "n", ".", ")", " ", "b">>,
     <<"(", "3", " ", "m", "i", "n", ".", ")", "(", "4", " ", "m", "i", "n", ".", ")">>,
     <<"(", "t", "e", "n", " ", "m", "i", "n", ".", ")">>,
     <<"(", "7", " ", "m", "i", "n", ")">>,
     <<"(", "7", " ", "m", "i", "n", "u", "t", "e", "s", ".", ")">>,
     <<"7", " ", "m", "i", "n", ".">>,
     <<"(", " ", "m", "i", "n", ".", ")">>,
     <<"(", "7", "\n", "m", "i", "n", "s", ".", ")">>,
     <<>>}

\* texts of a heading: a digit and a dot, white space around them, two
\* digits, a digit without a dot, a dot without a digit, a space or a letter
\* before the dot, a digit and a dot after the start of the text, no text
SectionHeadings ==
    {<<"4", ".", " ", "F">>,
     <<"0", ".">>,
     <<"9", ".", "5">>,
     <<" ", NBSP, "7", ".", " ", "F", " ">>,
     <<"1", "0", ".", " ", "F">>,
     <<"4", " ", "F">>,
     <<"4">>,
     <<".", "4">>,
     <<"4", " ", ".", " ", "F">>,
     <<"a", "4", ".">>,
     <<"F", " ", "4", ".">>,
     <<"F">>,
     <<>>}

\* the elements of a flat list: two headings and two elements that are none
FlatElements ==
    {[tag |-> "h3", id |-> "a"], [tag |-> "h3", id |-> "b"],
     [tag |-> "div", id |-> "x"], [tag |-> "p", id |-> "y"]}

\* a flat list of elements for buildHeadlineToContentGroups
InitGroups ==
    /\ op = "buildHeadlineToContentGroups"
    /\ input \in {[elements |-> es] : es \in SeqsUpTo(FlatElements, MaxElements)}

\* a heading for getSectionNumberFromElement
InitSectionNumber ==
    /\ op = "getSectionNumberFromElement"
    /\ input \in {[text |-> t] : t \in SectionHeadings}

\* a selection for getTimeBoxFromElement: without a line with a time box, or
\* with one of the lines above
InitTimeBox ==
    /\ op = "getTimeBoxFromElement"
    /\ input \in {[hasTimeBoxLine |-> FALSE, timeBoxLine |-> <<>>]}
                 \cup {[hasTimeBoxLine |-> TRUE, timeBoxLine |-> t] : t \in TimeBoxLines}

InitFull ==
    /\ op = "extractFullWeekProgram"
    /\ input \in Pages

InitTalk ==
    /\ op = "extractTreasuresTalk"
    /\ \/ \E sh \in TalkShapes, same \in BOOLEAN :
             \E rs \in [1..Sum(sh) -> TalkResponses] :
                input = ExtractionInput(TRUE, FALSE, TRUE)
                            @@ [body |-> DocOf(Template), talk |-> TalkOf(sh, same, rs)]
       \/ \E t \in BrokenTalks :
             input = ExtractionInput(TRUE, FALSE, TRUE)
                         @@ [body |-> DocOf(Template), talk |-> t]
       \/ \E c \in BOOLEAN, h \in BOOLEAN, span \in {Template.span, Template.span - 1} :
             input = ExtractionInput(c, h, FALSE)
                         @@ [body |-> DocOf([Template EXCEPT !.span = span]),
                             talk |-> TalkOf(<<1>>, FALSE, <<CHOOSE r \in TalkResponses : r.ok>>)]

\* the extractor each route of the scrappers router calls, and its path
RouteOps ==
    SectionOps \cup {"extractFullWeekProgram", "extractWeeklyBibleRead", "extractTreasuresTalk",
                     "extractFieldMinistry"}
RoutePath(extractor) ==
    CASE extractor = "extractFullWeekProgram" -> "/week-program"
      [] extractor = "extractWeekDateSpan" -> "/week-date-span"
      [] extractor = "extractSongData" -> "/songs"
      [] extractor = "extractWeeklyBibleRead" -> "/weekly-bible-read"
      [] extractor = "extractTreasuresTalk" -> "/treasures-talk"
      [] extractor = "extractSpiritualGems" -> "/spiritual-gems"
      [] extractor = "extractBibleRead" -> "/bible-read-details"
      [] extractor = "extractFieldMinistry" -> "/field-ministry"
      [] extractor = "extractChristianLiving" -> "/christian-living"
      [] extractor = "extractBibleStudy" -> "/bible-study"

\* a request: its route, req.body.html, and for GET /this-week-program
\* what fetchThisWeekMeetingHtml() resolves to
Request(method, path, html, meeting) ==
    [cls |-> "Request", method |-> method, path |-> path, body |-> [html |-> html],
     meeting |-> meeting]

\* the pages requests are made with: a page with one fault, or with one
\* failing fetch
RequestPages ==
    {PageOf(fault, {}) : fault \in PageFaults \ {"noInput", "htmlOnly"}}
    \cup {PageOf("none", {g}) : g \in PageFetches}

\* the input {html} a route handler calls its extractor with
HandlerInput(page, html) ==
    [page EXCEPT !.cheerio = Null, !.html = html, !.selection = Null,
                 !.selectionBuilder = Null]

\* a POST request to a route of the scrappers router, with the html of a
\* page in its body or without html, or a GET request to /this-week-program,
\* the html of the meeting then being fetched or not
InitRequest ==
    \E page \in RequestPages, has \in BOOLEAN :
        \/ /\ op = "router.post"
           /\ \E extractor \in RouteOps :
                 req = Request("POST", RoutePath(extractor),
                               IF has THEN Html("page") ELSE Null, Null)
           /\ input = HandlerInput(page, req.body.html)
        \/ /\ op = "router.get"
           /\ req = Request("GET", "/this-week-program", Null,
                            IF has THEN Fetched(Html("page")) ELSE Failed("network"))
           /\ input = HandlerInput(page, IF has THEN Html("page") ELSE Null)

Init ==
    /\ \/ /\ \/ InitWrapper \/ InitResolve \/ InitBuilder \/ InitWeekly \/ InitTalk
             \/ InitFull \/ InitFieldMinistry \/ InitProcessExtractionInput
             \/ InitSection \/ InitSongs \/ InitTimeBox \/ InitSectionNumber
                 \/ InitGroups \/ InitGems \/ InitLanding
          /\ req = Null
          /\ pc = "start"
       \/ /\ InitRequest
          /\ pc = "request"
    /\ ret = Pending
    /\ wbr = Idle
    /\ talk = Idle
    /\ tasks = Idle
    /\ fetchLog = <<>>
    /\ builderCalls = <<>>
    /\ res = <<>>

\* res.status(status).json(body)
Response(status, body) == [status |-> status, json |-> body]

\* The handler that answers a failure without its message.
handlerResponse_StatusOnly(settled) ==
    IF settled.kind = "throw" THEN Response(500, [error |-> "Internal Server Error"])
    ELSE IF op = "extractWeekDateSpan" THEN Response(200, [weekDateSpan |-> settled.val])
    ELSE Response(200, settled.val)

\* what a route handler sends when the call it made settles: res.json(data)
\* from its try block, res.status(500).json({error: error.message}) from its
\* catch block
handlerResponse(settled) ==
    IF settled.kind = "throw" THEN Response(500, [error |-> settled.val.msg])
    ELSE IF op = "extractWeekDateSpan" THEN Response(200, [weekDateSpan |-> settled.val])
    ELSE Response(200, settled.val)

\* the route handler that made the call goes on as the call settles
HandlerResumes ==
    res' = IF req # Null /\ ret = Pending /\ ret' # Pending
           THEN Append(res, handlerResponse(ret'))
           ELSE res

\* the wrapper calls asyncFunc(...args) and awaits it
WrapperCall ==
    /\ op = "withErrorHandling" /\ pc = "start"
    /\ pc' = "await"
    /\ UNCHANGED <<op, input, ret, wbr, talk, tasks, fetchLog>>
    /\ HandlerResumes
    /\ UNCHANGED <<builderCalls, req>>

\* asyncFunc settles: the wrapper resolves to its tuple
WrapperSettle ==
    /\ op = "withErrorHandling" /\ pc = "await"
    /\ ret' = withErrorHandling(input.settles)
    /\ pc' = "done"
    /\ UNCHANGED <<op, input, wbr, talk, tasks, fetchLog>>
    /\ HandlerResumes
    /\ UNCHANGED <<builderCalls, req>>

\* fetchAndParseAnchorReferenceOrThrow($anchor) issues its fetch
ResolveCall ==
    /\ op = "fetchAndParseAnchorReferenceOrThrow" /\ pc = "start"
    /\ fetchLog' = Append(fetchLog, Fetch("anchor", 1, input.href))
    /\ pc' = "await"
    /\ UNCHANGED <<op, input, ret, wbr, talk, tasks>>
    /\ HandlerResumes
    /\ UNCHANGED <<builderCalls, req>>

\* the fetch completes: the payload is validated, classified and normalized
ResolveFetchDone ==
    /\ op = "fetchAndParseAnchorReferenceOrThrow" /\ pc = "await"
    /\ ret' = fetchAndParseAnchorReferenceOrThrow(input.resp)
    /\ pc' = "done"
    /\ UNCHANGED <<op, input, wbr, talk, tasks, fetchLog>>
    /\ HandlerResumes
    /\ UNCHANGED <<builderCalls, req>>

SongSelectionsCall ==
    /\ op = "getAndValidateSongSelections" /\ pc = "start"
    /\ ret' = getAndValidateSongSelections(input.body)
    /\ pc' = "done"
    /\ UNCHANGED <<op, input, wbr, talk, tasks, fetchLog>>
    /\ HandlerResumes
    /\ UNCHANGED <<builderCalls, req>>

GodsTreasuresCall ==
    /\ op = "getAndValidateGodsTreasuresSelections" /\ pc = "start"
    /\ ret' = getAndValidateGodsTreasuresSelections(input.body,
                                                    FIELD_MINISTRY_HEADLINE(input.body))
    /\ pc' = "done"
    /\ UNCHANGED <<op, input, wbr, talk, tasks, fetchLog>>
    /\ HandlerResumes
    /\ UNCHANGED <<builderCalls, req>>

ProgramGroupsCall ==
    /\ op = "buildRelevantProgramGroupSelections" /\ pc = "start"
    /\ ret' = buildRelevantProgramGroupSelections(input.body)
    /\ pc' = "done"
    /\ UNCHANGED <<op, input, wbr, talk, tasks, fetchLog>>
    /\ HandlerResumes
    /\ UNCHANGED <<builderCalls, req>>

\* extractWeeklyBibleRead(input) is called and runs to its first await
WeeklyCall ==
    /\ op = "extractWeeklyBibleRead" /\ pc = "start"
    /\ wbr' = extractWeeklyBibleRead_call(input)
    /\ fetchLog' = fetchLog \o wbr'.issued
    /\ ret' = wbr'.out
    /\ pc' = IF wbr'.st = "running" THEN "await" ELSE "done"
    /\ UNCHANGED <<op, input, talk, tasks>>
    /\ HandlerResumes
    /\ UNCHANGED <<builderCalls, req>>

\* the outstanding fetch of extractWeeklyBibleRead completes
WeeklyFetchDone ==
    /\ op = "extractWeeklyBibleRead" /\ pc = "await" /\ wbr.st = "running"
    /\ wbr' = extractWeeklyBibleRead_resume(wbr, input)
    /\ fetchLog' = fetchLog \o wbr'.issued
    /\ ret' = wbr'.out
    /\ pc' = IF wbr'.st = "running" THEN "await" ELSE "done"
    /\ UNCHANGED <<op, input, talk, tasks>>
    /\ HandlerResumes
    /\ UNCHANGED <<builderCalls, req>>

\* extractTreasuresTalk(input) is called and runs to its first await
TalkCall ==
    /\ op = "extractTreasuresTalk" /\ pc = "start"
    /\ input' = [input EXCEPT !.selectionBuilder =
                                   Function("buildGodsTreasuresSelections.treasuresTalk")]
    /\ talk' = extractTreasuresTalk_call(input)
    /\ fetchLog' = fetchLog \o talk'.issued
    /\ ret' = talk'.out
    /\ pc' = IF talk'.st = "running" THEN "await" ELSE "done"
    /\ UNCHANGED <<op, wbr, tasks>>
    /\ HandlerResumes
    /\ UNCHANGED <<builderCalls, req>>

\* the outstanding fetch of extractTreasuresTalk completes
TalkFetchDone ==
    /\ op = "extractTreasuresTalk" /\ pc = "await" /\ talk.st = "running"
    /\ talk' = extractTreasuresTalk_resume(talk, input)
    /\ fetchLog' = fetchLog \o talk'.issued
    /\ ret' = talk'.out
    /\ pc' = IF talk'.st = "running" THEN "await" ELSE "done"
    /\ UNCHANGED <<op, input, wbr, tasks>>
    /\ HandlerResumes
    /\ UNCHANGED <<builderCalls, req>>

\* the parsed document processExtractionInput goes on with
parsedDocument(in) == IF Truthy(in.cheerio) THEN in.cheerio ELSE load(in.html)

\* processExtractionInput(input) is called
ProcessExtractionInputCall ==
    /\ op = "processExtractionInput" /\ pc = "start"
    /\ \E r \in {processExtractionInput_run(
                     input,
                     IF Truthy(input.selectionBuilder)
                        /\ (Truthy(input.cheerio) \/ Truthy(input.html))
                     THEN callSelectionBuilder(input.selectionBuilder, parsedDocument(input))
                     ELSE Return(Null))} :
          /\ ret' = r.out
          /\ builderCalls' = IF r.invoked = 1
                             THEN Append(builderCalls, parsedDocument(input))
                             ELSE builderCalls
    /\ pc' = "done"
    /\ UNCHANGED <<op, input, wbr, talk, tasks, fetchLog>>
    /\ HandlerResumes
    /\ UNCHANGED req

\* the six promises extractFullWeekProgram awaits, in the order of its array
FullPromises(w, t, ts) == <<ts.songs, w, t, ts.gems, ts.read, ts.fm>>

\* extractFullWeekProgram(input) is called and runs to its await
FullCall ==
    /\ op = "extractFullWeekProgram" /\ pc = "start"
    /\ \E c \in {extractFullWeekProgram_call(input)} :
           /\ ret' = c.out
           /\ fetchLog' = fetchLog \o c.issued
           /\ pc' = IF c.called THEN "called" ELSE "done"
           /\ IF c.called
              THEN /\ wbr' = c.weekly
                   /\ talk' = c.talk
                   /\ tasks' = [songs |-> c.songs, gems |-> c.gems, read |-> c.read, fm |-> c.fm]
              ELSE UNCHANGED <<wbr, talk, tasks>>
    /\ UNCHANGED <<op, input>>
    /\ HandlerResumes
    /\ UNCHANGED <<builderCalls, req>>

\* the fetch of a song completes
SongFetchDone(k) ==
    /\ op = "extractFullWeekProgram" /\ pc = "called"
    /\ tasks.songs.promises[k].st = "running"
    /\ tasks' = [tasks EXCEPT !.songs = extractSongData_resume(@, WithSelection(input), k)]
    /\ ret' = fullWeekProgramAwait(ret, input, FullPromises(wbr, talk, tasks'))
    /\ UNCHANGED <<op, input, pc, wbr, talk, fetchLog>>
    /\ HandlerResumes
    /\ UNCHANGED <<builderCalls, req>>

\* the outstanding fetch of the weekly reading completes
FullWeeklyFetchDone ==
    /\ op = "extractFullWeekProgram" /\ pc = "called"
    /\ wbr.st = "running"
    /\ wbr' = extractWeeklyBibleRead_resume(wbr, WithSelection(input))
    /\ fetchLog' = fetchLog \o wbr'.issued
    /\ ret' = fullWeekProgramAwait(ret, input, FullPromises(wbr', talk, tasks))
    /\ UNCHANGED <<op, input, pc, talk, tasks>>
    /\ HandlerResumes
    /\ UNCHANGED <<builderCalls, req>>

\* the outstanding fetch of the talk completes
FullTalkFetchDone ==
    /\ op = "extractFullWeekProgram" /\ pc = "called"
    /\ talk.st = "running"
    /\ talk' = extractTreasuresTalk_resume(talk, WithSelection(input))
    /\ fetchLog' = fetchLog \o talk'.issued
    /\ ret' = fullWeekProgramAwait(ret, input, FullPromises(wbr, talk', tasks))
    /\ UNCHANGED <<op, input, pc, wbr, tasks>>
    /\ HandlerResumes
    /\ UNCHANGED <<builderCalls, req>>

\* the outstanding fetch of the spiritual gems completes
GemsFetchDone ==
    /\ op = "extractFullWeekProgram" /\ pc = "called"
    /\ tasks.gems.st = "running"
    /\ tasks' = [tasks EXCEPT !.gems = extractSpiritualGems_resume(@, WithSelection(input))]
    /\ fetchLog' = fetchLog \o tasks'.gems.issued
    /\ ret' = fullWeekProgramAwait(ret, input, FullPromises(wbr, talk, tasks'))
    /\ UNCHANGED <<op, input, pc, wbr, talk>>
    /\ HandlerResumes
    /\ UNCHANGED <<builderCalls, req>>

\* the outstanding fetch of the bible reading completes
ReadFetchDone ==
    /\ op = "extractFullWeekProgram" /\ pc = "called"
    /\ tasks.read.st = "running"
    /\ tasks' = [tasks EXCEPT !.read = extractBibleRead_resume(@, WithSelection(input))]
    /\ fetchLog' = fetchLog \o tasks'.read.issued
    /\ ret' = fullWeekProgramAwait(ret, input, FullPromises(wbr, talk, tasks'))
    /\ UNCHANGED <<op, input, pc, wbr, talk>>
    /\ HandlerResumes
    /\ UNCHANGED <<builderCalls, req>>

\* the fetch of the study point of a field ministry assignment completes
FieldMinistryFetchDone ==
    /\ op = "extractFullWeekProgram" /\ pc = "called"
    /\ \E k \in DOMAIN tasks.fm.promises :
          /\ tasks.fm.promises[k].st = "running"
          /\ tasks' = [tasks EXCEPT !.fm = extractFieldMinistry_resume(@, WithSelection(input), k)]
    /\ ret' = fullWeekProgramAwait(ret, input, FullPromises(wbr, talk, tasks'))
    /\ UNCHANGED <<op, input, pc, wbr, talk, fetchLog>>
    /\ HandlerResumes
    /\ UNCHANGED <<builderCalls, req>>

\* the promises of a section extractor called on its own
NoTasks == [songs |-> Idle, gems |-> Idle, read |-> Idle, fm |-> Idle]

\* some promise of the mapped functions is still waiting for its fetch
Outstanding(t) == \E k \in DOMAIN t.promises : t.promises[k].st = "running"

\* extractFieldMinistry(input) is called: it sets input.selectionBuilder and
\* runs its mapped functions to their awaits
ExtractFieldMinistryCall ==
    /\ op = "extractFieldMinistry" /\ pc = "start"
    /\ input' = [input EXCEPT !.selectionBuilder =
                                   Function("buildFieldMinistrySelections.fieldMinistry")]
    /\ \E t \in {extractFieldMinistry_call(input)} :
          /\ tasks' = [NoTasks EXCEPT !.fm = t]
          /\ fetchLog' = fetchLog \o t.issued
          /\ ret' = t.out
          /\ pc' = IF Outstanding(t) THEN "await" ELSE "done"
    /\ UNCHANGED <<op, wbr, talk>>
    /\ HandlerResumes
    /\ UNCHANGED <<builderCalls, req>>

\* the fetch of the study point of an assignment completes, for
\* extractFieldMinistry called on its own
ExtractFieldMinistryFetchDone ==
    /\ op = "extractFieldMinistry" /\ pc = "await"
    /\ \E k \in DOMAIN tasks.fm.promises :
          /\ tasks.fm.promises[k].st = "running"
          /\ tasks' = [tasks EXCEPT !.fm = extractFieldMinistry_resume(@, input, k)]
    /\ ret' = tasks'.fm.out
    /\ pc' = IF Outstanding(tasks'.fm) THEN "await" ELSE "done"
    /\ UNCHANGED <<op, input, wbr, talk, fetchLog>>
    /\ HandlerResumes
    /\ UNCHANGED <<builderCalls, req>>

\* extractSongData(input) is called: it sets input.selectionBuilder and
\* throws, or runs its mapped functions to their awaits and returns the
\* promise of Promise.all
ExtractSongDataCall ==
    /\ op = "extractSongData" /\ pc = "start"
    /\ input' = [input EXCEPT !.selectionBuilder =
                                   Function("getAndValidateSongSelections.songs")]
    /\ \E t \in {extractSongData_call(input)} :
          /\ tasks' = [NoTasks EXCEPT !.songs = t]
          /\ fetchLog' = fetchLog \o t.issued
          /\ ret' = t.out
          /\ pc' = IF Outstanding(t) THEN "await" ELSE "done"
    /\ UNCHANGED <<op, wbr, talk>>
    /\ HandlerResumes
    /\ UNCHANGED <<builderCalls, req>>

\* the fetch of song k completes, for extractSongData called on its own
ExtractSongDataFetchDone(k) ==
    /\ op = "extractSongData" /\ pc = "await"
    /\ tasks.songs.promises[k].st = "running"
    /\ tasks' = [tasks EXCEPT !.songs = extractSongData_resume(@, input, k)]
    /\ ret' = tasks'.songs.out
    /\ pc' = IF Outstanding(tasks'.songs) THEN "await" ELSE "done"
    /\ UNCHANGED <<op, input, wbr, talk, fetchLog>>
    /\ HandlerResumes
    /\ UNCHANGED <<builderCalls, req>>

\* extractSpiritualGems(input) is called and runs to its first await
ExtractSpiritualGemsCall ==
    /\ op = "extractSpiritualGems" /\ pc = "start"
    /\ input' = [input EXCEPT !.selectionBuilder =
                                   Function("buildGodsTreasuresSelections.spiritualGems")]
    /\ \E t \in {extractSpiritualGems_call(input)} :
          /\ tasks' = [NoTasks EXCEPT !.gems = t]
          /\ fetchLog' = fetchLog \o t.issued
          /\ ret' = t.out
          /\ pc' = IF t.st = "running" THEN "await" ELSE "done"
    /\ UNCHANGED <<op, wbr, talk>>
    /\ HandlerResumes
    /\ UNCHANGED <<builderCalls, req>>

\* the outstanding fetch of extractSpiritualGems completes
ExtractSpiritualGemsFetchDone ==
    /\ op = "extractSpiritualGems" /\ pc = "await" /\ tasks.gems.st = "running"
    /\ tasks' = [tasks EXCEPT !.gems = extractSpiritualGems_resume(@, input)]
    /\ fetchLog' = fetchLog \o tasks'.gems.issued
    /\ ret' = tasks'.gems.out
    /\ pc' = IF tasks'.gems.st = "running" THEN "await" ELSE "done"
    /\ UNCHANGED <<op, input, wbr, talk>>
    /\ HandlerResumes
    /\ UNCHANGED <<builderCalls, req>>

\* extractBibleRead(input) is called and runs to its first await
ExtractBibleReadCall ==
    /\ op = "extractBibleRead" /\ pc = "start"
    /\ input' = [input EXCEPT !.selectionBuilder =
                                   Function("buildGodsTreasuresSelections.bibleRead")]
    /\ \E t \in {extractBibleRead_call(input)} :
          /\ tasks' = [NoTasks EXCEPT !.read = t]
          /\ fetchLog' = fetchLog \o t.issued
          /\ ret' = t.out
          /\ pc' = IF t.st = "running" THEN "await" ELSE "done"
    /\ UNCHANGED <<op, wbr, talk>>
    /\ HandlerResumes
    /\ UNCHANGED <<builderCalls, req>>

\* the outstanding fetch of extractBibleRead completes
ExtractBibleReadFetchDone ==
    /\ op = "extractBibleRead" /\ pc = "await" /\ tasks.read.st = "running"
    /\ tasks' = [tasks EXCEPT !.read = extractBibleRead_resume(@, input)]
    /\ fetchLog' = fetchLog \o tasks'.read.issued
    /\ ret' = tasks'.read.out
    /\ pc' = IF tasks'.read.st = "running" THEN "await" ELSE "done"
    /\ UNCHANGED <<op, input, wbr, talk>>
    /\ HandlerResumes
    /\ UNCHANGED <<builderCalls, req>>

\* extractWeekDateSpan(input) is called
ExtractWeekDateSpanCall ==
    /\ op = "extractWeekDateSpan" /\ pc = "start"
    /\ ret' = extractWeekDateSpan(input)
    /\ pc' = "done"
    /\ UNCHANGED <<op, input, wbr, talk, tasks, fetchLog>>
    /\ HandlerResumes
    /\ UNCHANGED <<builderCalls, req>>

\* extractChristianLiving(input) is called: it sets input.selectionBuilder
ExtractChristianLivingCall ==
    /\ op = "extractChristianLiving" /\ pc = "start"
    /\ input' = [input EXCEPT !.selectionBuilder =
                                   Function("buildChristianLivingSelections.christianLiving")]
    /\ ret' = extractChristianLiving(input)
    /\ pc' = "done"
    /\ UNCHANGED <<op, wbr, talk, tasks, fetchLog>>
    /\ HandlerResumes
    /\ UNCHANGED <<builderCalls, req>>

\* extractBibleStudy(input) is called: it sets input.selectionBuilder
ExtractBibleStudyCall ==
    /\ op = "extractBibleStudy" /\ pc = "start"
    /\ input' = [input EXCEPT !.selectionBuilder =
                                   Function("buildChristianLivingSelections.bibleStudy")]
    /\ ret' = extractBibleStudy(input)
    /\ pc' = "done"
    /\ UNCHANGED <<op, wbr, talk, tasks, fetchLog>>
    /\ HandlerResumes
    /\ UNCHANGED <<builderCalls, req>>

\* a call of buildHeadlineToContentGroups(fieldMinistry, $)
BuildHeadlineToContentGroupsCall ==
    /\ op = "buildHeadlineToContentGroups" /\ pc = "start"
    /\ ret' = Return([cls |-> "Array",
                      items |-> buildHeadlineToContentGroups(input.elements, <<>>)])
    /\ pc' = "done"
    /\ UNCHANGED <<op, input, wbr, talk, tasks, fetchLog>>
    /\ HandlerResumes
    /\ UNCHANGED <<builderCalls, req>>

\* a call of getSectionNumberFromElement($element)
GetSectionNumberFromElementCall ==
    /\ op = "getSectionNumberFromElement" /\ pc = "start"
    /\ ret' = getSectionNumberFromElement(input.text)
    /\ pc' = "done"
    /\ UNCHANGED <<op, input, wbr, talk, tasks, fetchLog>>
    /\ HandlerResumes
    /\ UNCHANGED <<builderCalls, req>>

\* a call of getTimeBoxFromElement($selection)
GetTimeBoxFromElementCall ==
    /\ op = "getTimeBoxFromElement" /\ pc = "start"
    /\ ret' = getTimeBoxFromElement(input.hasTimeBoxLine, input.timeBoxLine)
    /\ pc' = "done"
    /\ UNCHANGED <<op, input, wbr, talk, tasks, fetchLog>>
    /\ HandlerResumes
    /\ UNCHANGED <<builderCalls, req>>

\* a POST request to a route of the scrappers router: checkHtmlContent(req,
\* res, next) answers it, or lets the handler of the route call its extractor
CheckHtmlContent ==
    /\ op = "router.post" /\ pc = "request"
    /\ IF ~Truthy(req.body.html)
       THEN /\ res' = Append(res, Response(400, [error |-> "HTML content is required"]))
            /\ pc' = "responded"
            /\ op' = op
       ELSE /\ res' = res
            /\ pc' = "start"
            /\ op' = CHOOSE extractor \in RouteOps : RoutePath(extractor) = req.path
    /\ UNCHANGED <<input, ret, wbr, talk, tasks, fetchLog, builderCalls, req>>

\* router.get('/this-week-program') up to its call of extractFullWeekProgram
GetThisWeekProgram ==
    /\ op = "router.get" /\ pc = "request"
    /\ IF ~req.meeting.ok
       THEN /\ res' = Append(res, Response(500, [error |-> req.meeting.errMsg]))
            /\ pc' = "responded"
            /\ op' = op
       ELSE /\ res' = res
            /\ pc' = "start"
            /\ op' = "extractFullWeekProgram"
    /\ UNCHANGED <<input, ret, wbr, talk, tasks, fetchLog, builderCalls, req>>

\* fetchLandingHtml() is called and issues its first request
FetchLandingHtmlCall ==
    /\ op = "fetchLandingHtml" /\ pc = "start"
    /\ tasks' = fetchLandingHtml_call
    /\ fetchLog' = fetchLog \o tasks'.issued
    /\ pc' = "await"
    /\ UNCHANGED <<op, input, ret, wbr, talk>>
    /\ HandlerResumes
    /\ UNCHANGED <<builderCalls, req>>

\* the request for the base URL completes: the second request is issued,
\* or the wrapper resolves to the tuple of the Error
FetchLandingHtmlBaseDone ==
    /\ op = "fetchLandingHtml" /\ pc = "await" /\ tasks.awaits = "baseUrl"
    /\ tasks' = fetchLandingHtml_base(tasks, input)
    /\ fetchLog' = fetchLog \o tasks'.issued
    /\ ret' = IF tasks'.st = "running" THEN ret ELSE withErrorHandling(tasks'.out)
    /\ pc' = IF tasks'.st = "running" THEN "await" ELSE "done"
    /\ UNCHANGED <<op, input, wbr, talk>>
    /\ HandlerResumes
    /\ UNCHANGED <<builderCalls, req>>

\* the request for the landing page of the language completes: the wrapper
\* resolves to its tuple
FetchLandingHtmlLanguageDone ==
    /\ op = "fetchLandingHtml" /\ pc = "await" /\ tasks.awaits = "landingForLanguage"
    /\ tasks' = fetchLandingHtml_language(tasks, input)
    /\ ret' = withErrorHandling(tasks'.out)
    /\ pc' = "done"
    /\ UNCHANGED <<op, input, wbr, talk, fetchLog>>
    /\ HandlerResumes
    /\ UNCHANGED <<builderCalls, req>>

Next ==
    \/ FullCall
    \/ \E k \in SongFetches : SongFetchDone(k)
    \/ FullWeeklyFetchDone
    \/ FullTalkFetchDone
    \/ GemsFetchDone
    \/ ReadFetchDone
    \/ FieldMinistryFetchDone
    \/ ExtractFieldMinistryCall
    \/ ExtractFieldMinistryFetchDone
    \/ TalkCall
    \/ TalkFetchDone
    \/ WeeklyCall
    \/ WeeklyFetchDone
    \/ WrapperCall
    \/ WrapperSettle
    \/ ResolveCall
    \/ ResolveFetchDone
    \/ SongSelectionsCall
    \/ GodsTreasuresCall
    \/ ProgramGroupsCall
    \/ ProcessExtractionInputCall
    \/ ExtractSongDataCall
    \/ \E k \in SongFetches : ExtractSongDataFetchDone(k)
    \/ ExtractSpiritualGemsCall
    \/ ExtractSpiritualGemsFetchDone
    \/ ExtractBibleReadCall
    \/ ExtractBibleReadFetchDone
    \/ ExtractWeekDateSpanCall
    \/ ExtractChristianLivingCall
    \/ ExtractBibleStudyCall
    \/ GetTimeBoxFromElementCall
    \/ GetSectionNumberFromElementCall
    \/ BuildHeadlineToContentGroupsCall
    \/ FetchLandingHtmlCall
    \/ FetchLandingHtmlBaseDone
    \/ FetchLandingHtmlLanguageDone
    \/ CheckHtmlContent
    \/ GetThisWeekProgram

Spec == Init /\ [][Next]_vars

-----------------------------------------------------------------------------
(* Properties                                                              *)

\* the synchronous sub-extractions of extractFullWeekProgram, in the order
\* of the calls
FullSynchronousSteps ==
    <<processExtractionInput(input), buildRelevantProgramGroupSelections(input.body),
      extractWeekDateSpan(input), extractChristianLiving(WithSelection(input)),
      extractBibleStudy(WithSelection(input))>>

\* C1: when a sub-extraction of extractFullWeekProgram fails, the call
\* fails as soon as that failure occurs: a failing synchronous step
\* (input, selection groups, week date span, christian living, bible
\* study) fails the call before any extractor is called and any fetch is
\* issued, and a rejected extractor promise (songs, weekly bible read,
\* treasures talk, spiritual gems, bible reading, field ministry) leaves the
\* call failed in the same step, whatever the outstanding siblings do.  A
\* record is returned only when the six promises have all fulfilled, and it
\* holds the value of every sub-extraction.
C1_FullProgramFailsFastAndNeverPartially ==
    (op = "extractFullWeekProgram" /\ pc # "start") =>
        LET steps == FullSynchronousSteps
            failing == {k \in DOMAIN steps : steps[k].kind = "throw"}
        IN  /\ failing # {}
               => /\ pc = "done"
                  /\ ret = steps[CHOOSE k \in failing : \A j \in failing : k <= j]
                  /\ fetchLog = <<>>
                  /\ tasks = Idle /\ wbr = Idle /\ talk = Idle
            /\ failing = {}
               => LET six == FullPromises(wbr, talk, tasks)
                  IN  /\ pc = "called"
                      /\ (\E k \in DOMAIN six : six[k].st = "rejected")
                         => /\ ret.kind = "throw"
                            /\ \E k \in DOMAIN six : six[k].st = "rejected" /\ ret = six[k].out
                      /\ ret.kind = "pending" => \E k \in DOMAIN six : six[k].st = "running"
                      /\ ret.kind = "return"
                         => /\ \A k \in DOMAIN six : six[k].st = "fulfilled"
                            /\ ret.val = [cls |-> "Object",
                                          weekDateSpan |-> steps[3].val,
                                          startingSong |-> tasks.songs.promises[1].out.val,
                                          weeklyBibleReadData |-> wbr.out.val,
                                          treasuresTalk |-> talk.out.val,
                                          spiritualGems |-> tasks.gems.out.val,
                                          bibleRead |-> tasks.read.out.val,
                                          fieldMinistry |-> tasks.fm.out.val,
                                          middleSong |-> tasks.songs.promises[2].out.val,
                                          christianLiving |-> steps[4].val,
                                          bibleStudy |-> steps[5].val,
                                          closingSong |-> tasks.songs.promises[3].out.val]

\* the call has failed on the rejection of one extractor while a sibling
\* has fulfilled and another one is still waiting for its fetch
C1_Witness ==
    /\ op = "extractFullWeekProgram" /\ pc = "called"
    /\ ret.kind = "throw"
    /\ \E k \in 1..6 : FullPromises(wbr, talk, tasks)[k].st = "fulfilled"
    /\ \E k \in 1..6 : FullPromises(wbr, talk, tasks)[k].st = "running"
    /\ Len(fetchLog) > Cardinality(SongFetches)

\* the tuple is [null, result] or [error, null]
IsResultTuple(v) ==
    /\ v.cls = "Tuple"
    /\ \/ v.err = Null /\ ~IsError(v.res)
       \/ IsError(v.err) /\ v.res = Null

\* C2: the wrapper never throws or rejects; it resolves to [null, result]
\* when the wrapped function resolves to a value that is not an Error, and
\* to [error, null] when the wrapped function returns an Error or throws
\* one, so a failure is always paired with no result.
C2_WrapperPairsFailureWithNoResult ==
    /\ op \in {"withErrorHandling", "fetchAndParseAnchorReferenceOrThrow"}
       => /\ ret.kind # "throw"
          /\ (pc = "done") => (ret.kind = "return" /\ IsResultTuple(ret.val))
    /\ (op = "withErrorHandling" /\ pc = "done")
       => IF input.settles.kind = "return" /\ ~IsError(input.settles.val)
          THEN ret.val.err = Null /\ ret.val.res = input.settles.val
          ELSE ret.val.err = input.settles.val /\ ret.val.res = Null

\* a wrapped function returned (not threw) an Error and the wrapper resolved
C2_Witness ==
    /\ op = "withErrorHandling" /\ pc = "done"
    /\ input.settles.kind = "return" /\ IsError(input.settles.val)
    /\ ret.val.err = input.settles.val

\* the payload has exactly one item, with non-empty string content and
\* non-empty string articleClasses
ExactlyOneUsableItem(json) ==
    /\ json.kind = "array" /\ Len(json.items) = 1
    /\ json.items[1].hasContent /\ json.items[1].content # ""
    /\ json.items[1].hasClasses /\ json.items[1].articleClasses # <<>>

\* C3: reference resolution fails for every fetched payload with zero or
\* more than one item, or whose single item lacks non-empty content or a
\* non-empty articleClasses; only a payload with exactly one item carrying
\* both is normalized.
C3_OnlyExactlyOneUsableItemIsNormalized ==
    (op = "fetchAndParseAnchorReferenceOrThrow" /\ pc = "done" /\ input.resp.ok)
    => (ret.val.err = Null <=> ExactlyOneUsableItem(input.resp.json))

\* the number of elements matched by each landmark selector
LandmarkCounts(body) ==
    {Len(STARTING_SONG(body)), Len(MIDDLE_SONG(body)), Len(FINAL_SONG(body)),
     Len(TREASURES_TALK(body)), Len(FIELD_MINISTRY_HEADLINE(body)),
     Len(CHRISTIAN_LIVING_HEADLINE(body))}

\* C4: buildRelevantProgramGroupSelections fails whenever a landmark is
\* matched by a number of elements other than exactly one.
C4_LandmarkCountOtherThanOneFails ==
    (op = "buildRelevantProgramGroupSelections" /\ pc = "done"
     /\ LandmarkCounts(input.body) # {1})
    => ret.kind = "throw"

\* the siblings after the single treasures-talk anchor at position t and
\* before the first field-ministry headline that follows it
SpanAfter(body, t) ==
    {j \in (t + 1)..Len(body) :
        \A f \in (t + 1)..j : "dc-icon--wheat" \notin body[f].classes}

SongLandmarks(body) == <<STARTING_SONG(body), MIDDLE_SONG(body), FINAL_SONG(body)>>

\* C6: if a located song landmark is not an h3 (none of the elements located
\* for it is one), getAndValidateSongSelections
\* and buildRelevantProgramGroupSelections throw "Unexpected element
\* detected. Expected h3, got <actual tag>"; when all three are h3 the
\* returned songs selection has three elements in the order starting,
\* middle, closing.
C6_NonH3SongLandmarkIsNamed ==
    (op \in {"getAndValidateSongSelections", "buildRelevantProgramGroupSelections"}
     /\ pc = "done"
     /\ \A l \in 1..3 : SongLandmarks(input.body)[l] # <<>>)
    => LET L == SongLandmarks(input.body)
           bad == {l \in 1..3 : ~isH3(input.body, L[l])}
       IN  /\ bad # {}
              => \E l \in bad : ret = Throw(Error(MSG_NOT_H3 \o input.body[L[l][1]].tag))
           /\ (ret.kind = "return") => ret.val.songs = L

\* the payloads the anchors of the weekly reading line resolved to
WeeklyPayloads == [i \in 1..Len(input.resps) |-> input.resps[i].json.items[1]]

\* the path without its last segment
DropLastSegment(path) ==
    LET parts == Split(path, "/") IN Join(SubSeq(parts, 1, Len(parts) - 1), "/")

LastSegment(path) ==
    LET parts == Split(path, "/") IN parts[Len(parts)]

WeeklySucceeded ==
    op = "extractWeeklyBibleRead" /\ pc = "done" /\ ret.kind = "return"

\* C7: when extractWeeklyBibleRead succeeds over anchors a1..an, the book
\* number, the book name and the URL path used for the links are those of
\* the payload of a1, firstChapter is the least first_chapter and
\* lastChapter the greatest last_chapter over all the payloads.
C7_WeeklyReadTakesBookFromFirstAnchorAndWidestRange ==
    WeeklySucceeded =>
        LET P == WeeklyPayloads
            r == ret.val
        IN  /\ r.bookNumber = P[1].book
            /\ r.bookName = BookNames[P[1].book]
            /\ wbr.urlPathForLinks = P[1].url
            /\ \A l \in 1..Len(r.links) :
                  DropLastSegment(r.links[l])
                    = DropLastSegment(BASE_URL \o SliceTo(input.anchors[1], 3) \o P[1].url)
            /\ \E i \in DOMAIN P : r.firstChapter = P[i].first_chapter
            /\ \A i \in DOMAIN P : r.firstChapter <= P[i].first_chapter
            /\ \E i \in DOMAIN P : r.lastChapter = P[i].last_chapter
            /\ \A i \in DOMAIN P : r.lastChapter >= P[i].last_chapter

\* the reading succeeded over anchors of two books, a later anchor reaching
\* below and above the chapters of the first
C7_Witness ==
    /\ WeeklySucceeded
    /\ Len(input.anchors) >= 2
    /\ \E i \in 2..Len(input.anchors) :
          /\ WeeklyPayloads[i].book # WeeklyPayloads[1].book
          /\ WeeklyPayloads[i].first_chapter < WeeklyPayloads[1].first_chapter
    /\ \E i \in 2..Len(input.anchors) :
          WeeklyPayloads[i].last_chapter > WeeklyPayloads[1].last_chapter

\* C8: when extractWeeklyBibleRead succeeds, links has exactly
\* lastChapter - firstChapter + 1 entries, and entry i (from 0) is the URL
\* of the first anchor's payload, under the base URL and the language of
\* the first anchor, with its last path segment replaced by firstChapter + i.
C8_WeeklyReadLinksCoverTheChapterRange ==
    WeeklySucceeded =>
        LET r == ret.val
        IN  /\ Len(r.links) = r.lastChapter - r.firstChapter + 1
            /\ \A l \in 1..Len(r.links) :
                  /\ LastSegment(r.links[l]) = NumToStr(r.firstChapter + l - 1)
                  /\ StrToNum(LastSegment(r.links[l])) = r.firstChapter + l - 1
                  /\ DropLastSegment(r.links[l])
                       = BASE_URL \o SliceTo(input.anchors[1], 3)
                           \o DropLastSegment(WeeklyPayloads[1].url)

\* the reading succeeded with three links or more, over a first anchor of a
\* single chapter that is neither the first nor the last of the range
C8_Witness ==
    /\ WeeklySucceeded
    /\ Len(ret.val.links) >= 3
    /\ WeeklyPayloads[1].first_chapter = WeeklyPayloads[1].last_chapter
    /\ ret.val.firstChapter < WeeklyPayloads[1].first_chapter
    /\ ret.val.lastChapter > WeeklyPayloads[1].last_chapter

\* the response is a well-formed payload that is classified as scripture
WeeklyScripture(resp) ==
    /\ resp.ok
    /\ resp.json.kind = "array" /\ Len(resp.json.items) = 1
    /\ resp.json.items[1].hasContent /\ resp.json.items[1].content # ""
    /\ resp.json.items[1].hasClasses
    /\ WordBoundaryTest(PUB_CODE_BIBLE, resp.json.items[1].articleClasses)

\* the response is a well-formed payload that is not classified as scripture
WeeklyNotScripture(resp) ==
    /\ resp.ok
    /\ resp.json.kind = "array" /\ Len(resp.json.items) = 1
    /\ resp.json.items[1].hasContent /\ resp.json.items[1].content # ""
    /\ resp.json.items[1].hasClasses /\ resp.json.items[1].articleClasses # <<>>
    /\ ~WordBoundaryTest(PUB_CODE_BIBLE, resp.json.items[1].articleClasses)

\* C9: as soon as an anchor of the weekly reading line resolves to a
\* payload that is not classified as scripture, extractWeeklyBibleRead fails
\* with an error of its own, different from the error of a failed fetch and
\* from the error of a malformed payload, and no later anchor is fetched.
C9_WeeklyReadStopsAtNonScripturePayload ==
    (op = "extractWeeklyBibleRead" /\ Truthy(input.cheerio)) =>
        \A k \in 1..Len(input.resps) :
            (WeeklyNotScripture(input.resps[k])
             /\ \A j \in 1..(k - 1) : WeeklyScripture(input.resps[j]))
            => /\ Len(fetchLog) <= k
               /\ \A f \in 1..Len(fetchLog) : fetchLog[f].anchor = f
               /\ pc = "done"
                  => /\ ret = Throw(Error(MSG_UNEXPECTED_REF))
                     /\ Len(fetchLog) = k
                     /\ \A r \in WeeklyResponses :
                           ~WeeklyNotScripture(r) /\ ~WeeklyScripture(r)
                           => weeklyCheck(r) # ret

\* the reading failed on the second anchor of three, a watchtower article
C9_Witness ==
    /\ op = "extractWeeklyBibleRead" /\ pc = "done"
    /\ Len(input.anchors) = 3
    /\ WeeklyScripture(input.resps[1])
    /\ WeeklyNotScripture(input.resps[2])
    /\ ret = Throw(Error(MSG_UNEXPECTED_REF))
    /\ Len(fetchLog) = 2

TalkSucceeded ==
    op = "extractTreasuresTalk" /\ pc = "done" /\ ret.kind = "return"

\* the reference anchors of a talk, in the order of the document
RECURSIVE TalkRefsOf(_)
TalkRefsOf(points) ==
    IF points = <<>> THEN <<>> ELSE points[1].refs \o TalkRefsOf(Tail(points))

\* the number of reference anchors of the talk
TalkAnchors == Sum([k \in DOMAIN input.talk.points |-> Len(input.talk.points[k].refs)])

\* the ids the points list, point after point
RECURSIVE Flatten(_)
Flatten(q) == IF q = <<>> THEN <<>> ELSE q[1] \o Flatten(Tail(q))

\* C10: when extractTreasuresTalk succeeds on a talk with n reference
\* anchors, the keys of footnotes are exactly 1..n, the ids are given in
\* document order across the points (from 1, increasing by one, never
\* used twice), and the ids the points list are the keys of footnotes, each
\* listed by exactly one point, the point that holds the anchor.
C10_TalkFootnoteIdsAreOneToN ==
    TalkSucceeded =>
        LET r == ret.val
            listed == Flatten([k \in DOMAIN r.points |-> r.points[k].footnotes])
        IN  /\ DOMAIN r.footnotes = 1..TalkAnchors
            /\ Len(r.points) = Len(input.talk.points)
            /\ listed = [g \in 1..TalkAnchors |-> g]
            /\ \A k \in DOMAIN r.points :
                  Len(r.points[k].footnotes) = Len(input.talk.points[k].refs)
            /\ \A f \in DOMAIN fetchLog :
                  /\ fetchLog[f].anchor = f
                  /\ fetchLog[f].url =
                         BASE_URL \o SliceFrom(TalkRefsOf(input.talk.points)[f].href, 3)
            /\ \A k \in DOMAIN r.points :
                  \A m \in DOMAIN r.points[k].footnotes :
                      r.footnotes[r.points[k].footnotes[m]]
                        = fetchAndParseAnchorReferenceOrThrow(
                              input.talk.points[k].refs[m].resp).val.res.parsedContent

\* the talk succeeded with references in two points, the second point
\* starting at an id above 1, over payloads of two kinds
C10_Witness ==
    /\ TalkSucceeded
    /\ Len(ret.val.points) >= 2
    /\ Len(ret.val.points[1].footnotes) >= 1
    /\ Len(ret.val.points[2].footnotes) >= 1
    /\ ret.val.points[2].footnotes[1] = Len(ret.val.points[1].footnotes) + 1
    /\ \E g, h \in DOMAIN ret.val.footnotes : ret.val.footnotes[g] # ret.val.footnotes[h]

\* the assignments a field ministry extraction has produced so far, with the
\* content element each was made from
FieldMinistryProduced ==
    IF op \notin {"extractFieldMinistry", "extractFullWeekProgram"} \/ tasks = Idle
       \/ tasks.fm = Idle
    THEN {}
    ELSE LET groups == buildHeadlineToContentGroups(input.fieldMinistry, <<>>)
         IN  {[assignment |-> tasks.fm.promises[k].out.val, contents |-> groups[k].contents[1]] :
                 k \in {j \in DOMAIN tasks.fm.promises : tasks.fm.promises[j].st = "fulfilled"}}

\* the fetch of the anchor resolves to a reference
Resolves(anchor) ==
    LET tuple == fetchAndParseAnchorReferenceOrThrow(anchor.resp).val
    IN  ~Truthy(tuple.err)

\* C11: every assignment extractFieldMinistry produces has a study point if
\* and only if it is a student task, and an assignment detected as a student
\* task whose study point anchor is missing or does not resolve makes the
\* extraction fail: it is never returned with a null study point.
C11_StudyPointIffStudentTask ==
    /\ \A p \in FieldMinistryProduced :
          /\ p.assignment.isStudentTask \in BOOLEAN
          /\ p.assignment.isStudentTask <=> p.assignment.studyPoint # Null
          /\ p.assignment.isStudentTask
             => /\ p.contents.anchors # <<>>
                /\ Resolves(p.contents.anchors[Len(p.contents.anchors)])
                /\ p.assignment.studyPoint.cls = "Object"
    /\ (op = "extractFieldMinistry" /\ pc = "done" /\ ret.kind = "return")
       => /\ Len(ret.val.items) = Cardinality(FieldMinistryProduced)
          /\ \A k \in DOMAIN ret.val.items :
                \E p \in FieldMinistryProduced : p.assignment = ret.val.items[k]
    /\ (op = "extractFieldMinistry" /\ pc = "done"
        /\ \E e \in DOMAIN input.fieldMinistry :
               LET el == input.fieldMinistry[e]
               IN  /\ e > 1 /\ input.fieldMinistry[e - 1].tag = "h3" /\ el.tag # "h3"
                   /\ IsStudentTaskText(cleanText(el.text))
                   /\ \/ el.anchors = <<>>
                      \/ ~Resolves(el.anchors[Len(el.anchors)]))
       => ret.kind = "throw"

\* a student task with its study point and another assignment without one
\* were returned together
C11_Witness ==
    /\ op = "extractFieldMinistry" /\ pc = "done" /\ ret.kind = "return"
    /\ \E a, b \in DOMAIN ret.val.items :
          /\ ret.val.items[a].isStudentTask /\ ret.val.items[a].studyPoint.cls = "Object"
          /\ ~ret.val.items[b].isStudentTask /\ ret.val.items[b].studyPoint = Null

\* the text has two parts in parentheses, one after the other
HasTwoGroups(text) ==
    \E a, b, c, d \in DOMAIN text :
        /\ a < b /\ b < c /\ c < d
        /\ text[a] = "(" /\ text[b] = ")" /\ text[c] = "(" /\ text[d] = ")"

\* what stands between the first ")" and the second "(" of a text that has
\* them, without the white space around it
BetweenGroups(text) ==
    LET opens == {i \in DOMAIN text : text[i] = "("}
        closes == {i \in DOMAIN text : text[i] = ")"}
        close1 == CHOOSE x \in closes : \A y \in closes : x <= y
        open2 == CHOOSE x \in opens : Cardinality({y \in opens : y < x}) = 1
    IN  Trim(SubSeq(text, close1 + 1, open2 - 1))

\* C12: an assignment of extractFieldMinistry is a student task if and only
\* if the cleaned text of its body has two parts in parentheses one after the
\* other; the contents of a student task is what stands between the first
\* ")" and the second "(" without the white space around it, and the contents
\* of any other assignment is the whole cleaned text.
C12_StudentTaskIffTwoGroups ==
    \A p \in FieldMinistryProduced :
        LET text == cleanText(p.contents.text)
        IN  /\ p.assignment.isStudentTask <=> HasTwoGroups(text)
            /\ p.assignment.isStudentTask => p.assignment.contents = BetweenGroups(text)
            /\ ~p.assignment.isStudentTask => p.assignment.contents = text

\* C13: processExtractionInput called with a selection and neither html nor
\* a parsed document does not fail and returns that selection.
C13_SelectionAloneIsEnough ==
    (/\ op = "processExtractionInput" /\ pc = "done"
     /\ Truthy(input.selection) /\ ~Truthy(input.html) /\ ~Truthy(input.cheerio))
    => /\ ret.kind = "return"
       /\ ret.val.selection = input.selection

SongDataInOrder(in) ==
    [k \in DOMAIN in.songs |->
        IF mapAnchorToSongData_call(k, in.songs[k]).st = "running"
        THEN mapAnchorToSongData_resume(in.songs[k])
        ELSE mapAnchorToSongData_call(k, in.songs[k])]

\* the record of each assignment of the section, in the order of the document
FieldMinistryInOrder(in) ==
    LET groups == buildHeadlineToContentGroups(in.fieldMinistry, <<>>)
    IN  [k \in DOMAIN groups |->
            IF fieldMinistryAssignment_call(k, groups[k]).st = "running"
            THEN fieldMinistryAssignment_resume(groups[k])
            ELSE fieldMinistryAssignment_call(k, groups[k])]

C16_ExtractorsLeaveTheirInputAlone ==
    [][(op \in {"extractSongData", "extractTreasuresTalk", "extractSpiritualGems",
                "extractBibleRead", "extractFieldMinistry", "extractChristianLiving",
                "extractBibleStudy"})
         => (input' = input)]_vars

\* what the collaborator serves for a fetch of fetchLog
RespOf(f) ==
    CASE f.task = "song" -> input.songs[f.anchor].resp
      [] f.task = "weeklyBibleRead" -> input.resps[f.anchor]
      [] f.task = "treasuresTalk" -> TalkRefsOf(input.talk.points)[f.anchor].resp
      [] f.task = "spiritualGems" ->
            IF f.anchor = 0 THEN SelectSeq(input.gems.anchors, LAMBDA a : a.b)[1].resp
            ELSE Tail(input.gems.anchors)[f.anchor].resp
      [] f.task = "bibleRead" -> input.read.anchors[f.anchor].resp
      [] f.task = "fieldMinistry" ->
            LET c == buildHeadlineToContentGroups(input.fieldMinistry, <<>>)[f.anchor].contents[1]
            IN  c.anchors[Len(c.anchors)].resp

\* the extractors that await their fetches one after the other, and those
\* that issue them all before they await any
OneByOne ==
    {"extractWeeklyBibleRead", "extractTreasuresTalk", "extractSpiritualGems", "extractBibleRead"}
FanOut == {"extractSongData", "extractFieldMinistry"}

\* the fetches of fetchLog that fail
FailedFetches == {i \in DOMAIN fetchLog : ~RespOf(fetchLog[i]).ok}

\* the promises of the mapped functions of the fan-out that is running
FanOutPromises ==
    IF op = "extractSongData" THEN tasks.songs.promises ELSE tasks.fm.promises

\* C17: within one call of an extractor the URL of a fetch that failed is
\* requested once, and nothing is requested once a fetch has failed: an
\* extractor that awaits its fetches one by one has issued none after one
\* that fails, and one that fans out issues the fetches of its items when it
\* is called and none afterwards.  A call some fetch of which failed fails: the extractor that
\* awaited the fetch, or the mapped function that did, fails with the Error
\* the collaborator gave for the URL, message unchanged, and a fan-out fails
\* with the reason of one of its mapped functions.
C17_NoRetryAndSameError ==
    (op \in OneByOne \cup FanOut)
    => /\ \A i \in FailedFetches :
             \A j \in DOMAIN fetchLog : i # j => fetchLog[i].url # fetchLog[j].url
       /\ op \in OneByOne => \A i \in FailedFetches : i = Len(fetchLog)
       /\ (op = "extractSongData" /\ pc # "start")
          => fetchLog = IF tasks.songs.promises = <<>> THEN <<>>
                        ELSE Issued([k \in DOMAIN input.songs |->
                                        mapAnchorToSongData_call(k, input.songs[k])])
       /\ (op = "extractFieldMinistry" /\ pc # "start")
          => fetchLog = IF tasks.fm.promises = <<>> THEN <<>>
                        ELSE LET groups == buildHeadlineToContentGroups(
                                               input.fieldMinistry, <<>>)
                             IN  Issued([k \in DOMAIN groups |->
                                            fieldMinistryAssignment_call(k, groups[k])])
       /\ (pc = "done" /\ FailedFetches # {})
          => /\ ret.kind = "throw"
             /\ op \in OneByOne
                => ret.val = [cls |-> "Error",
                              msg |-> RespOf(fetchLog[Len(fetchLog)]).errMsg]
             /\ op \in FanOut
                => /\ \A i \in FailedFetches :
                         FanOutPromises[fetchLog[i].anchor].out.val =
                             [cls |-> "Error", msg |-> RespOf(fetchLog[i]).errMsg]
                   /\ \E k \in DOMAIN FanOutPromises : FanOutPromises[k].out = ret

\* the second fetch of extractBibleRead failed: the call failed with the
\* error of the collaborator and the URL was requested once
C17_Witness ==
    /\ op = "extractBibleRead" /\ pc = "done"
    /\ Len(fetchLog) = 2
    /\ FailedFetches = {2}
    /\ ret = Throw(Error("network"))

\* what a handler answers once its extractor has settled
AnswerOfHandler ==
    IF ret.kind = "throw" THEN <<[status |-> 500, json |-> [error |-> ret.val.msg]]>>
    ELSE IF ret.kind = "return"
    THEN <<[status |-> 200,
            json |-> IF op = "extractWeekDateSpan" THEN [weekDateSpan |-> ret.val]
                     ELSE ret.val]>>
    ELSE <<>>

\* no extractor has been called for the request
ExtractorNotRun ==
    /\ op \in {"router.post", "router.get"}
    /\ ret = Pending /\ fetchLog = <<>>
    /\ wbr = Idle /\ talk = Idle /\ tasks = Idle

\* C18 as stated: every endpoint that runs an extractor sends one response
\* per request: 400, without running the extractor, when the body of the
\* request has no html, 500 with the message of the failure when the
\* extractor throws or its promise rejects, 200 with the data when it
\* succeeds.
C18_EveryEndpointAnswersOnce ==
    (req # Null /\ pc # "request")
    => /\ Len(res) <= 1
       /\ IF ~Truthy(req.body.html)
          THEN /\ res = <<[status |-> 400, json |-> [error |-> "HTML content is required"]]>>
               /\ ExtractorNotRun
          ELSE res = AnswerOfHandler

\* C18, amended: every POST route of the scrappers router sends one
\* response per request: 400, without running its extractor, when the body
\* has no html, 500 with the message of the failure when the extractor
\* throws or its promise rejects, 200 with the data when it succeeds.  GET
\* /this-week-program takes no html from the request and never answers 400:
\* it answers 500 with the message of the error when the html of the meeting
\* cannot be fetched, without running the extractor, and otherwise 500 or
\* 200 as the POST routes do.
C18_PostRoutesCheckHtmlAndAllAnswerOnce ==
    (req # Null /\ pc # "request")
    => /\ Len(res) <= 1
       /\ req.method = "POST"
          => IF ~Truthy(req.body.html)
             THEN /\ res = <<[status |-> 400,
                              json |-> [error |-> "HTML content is required"]]>>
                  /\ ExtractorNotRun
             ELSE res = AnswerOfHandler /\ RoutePath(op) = req.path
       /\ req.method = "GET"
          => IF ~req.meeting.ok
             THEN /\ res = <<[status |-> 500, json |-> [error |-> req.meeting.errMsg]]>>
                  /\ ExtractorNotRun
             ELSE res = AnswerOfHandler /\ op = "extractFullWeekProgram"

\* a POST request was answered 500 with the message of the error its
\* extractor rejected with after a fetch
C18_Witness ==
    /\ req # Null /\ req.method = "POST"
    /\ ret.kind = "throw" /\ fetchLog # <<>>
    /\ Len(res) = 1 /\ res[1].status = 500 /\ res[1].json.error = ret.val.msg

\* C19: every payload the resolver accepts is given to exactly one
\* normalizer: the one of talks and articles when its class tag matches the
\* talk publication code, the one of scriptures when the tag matches the
\* scripture publication code and not the talk code, the generic one when it
\* matches neither; the normalizer is given the content of the item, and
\* the two flags returned with the normalized text are those of that tag.
C19_DispatchSelectsOneNormalizer ==
    (/\ op = "fetchAndParseAnchorReferenceOrThrow" /\ pc = "done"
     /\ ret.val.err = Null)
    => LET item == input.resp.json.items[1]
           talkCode == WordBoundaryTest(<<"p", "u", "b", "-", "w">>, item.articleClasses)
           scriptureCode == WordBoundaryTest(<<"p", "u", "b", "-", "n", "w", "t", "s", "t", "y">>,
                                             item.articleClasses)
           refData == ret.val.res
       IN  /\ refData.parsedContent.parser \in {"parsePubW", "parsePubNwtsty", "parseDefault"}
           /\ refData.parsedContent.parser = "parsePubW" <=> talkCode
           /\ refData.parsedContent.parser = "parsePubNwtsty" <=> scriptureCode /\ ~talkCode
           /\ refData.parsedContent.parser = "parseDefault" <=> ~scriptureCode /\ ~talkCode
           /\ refData.parsedContent.of = item.content
           /\ refData.isPubW = talkCode
           /\ refData.isPubNwtsty = scriptureCode

\* a payload whose class tag matches both codes went to the normalizer of
\* talks and articles, with both flags set
C19_Witness ==
    /\ op = "fetchAndParseAnchorReferenceOrThrow" /\ pc = "done"
    /\ ret.val.err = Null
    /\ ret.val.res.isPubW /\ ret.val.res.isPubNwtsty
    /\ ret.val.res.parsedContent.parser = "parsePubW"

\* the line of the selection given to getTimeBoxFromElement, as cleanText
\* gives it
TimeBoxText == cleanText(input.timeBoxLine)

\* the text holds, from position p to position e, "(", the digits up to
\* position q, the characters of gap, and then "min.)" or "mins.)"
MinutePattern(p, q, e, gapOk(_)) ==
    /\ p < q /\ q < e /\ e <= Len(TimeBoxText)
    /\ TimeBoxText[p] = "("
    /\ \A d \in (p + 1)..q : TimeBoxText[d] \in {"0", "1", "2", "3", "4", "5", "6", "7", "8", "9"}
    /\ \E r \in (q + 1)..e :
          /\ gapOk(SubSeq(TimeBoxText, q + 1, r - 1))
          /\ SubSeq(TimeBoxText, r, e) \in {<<"m", "i", "n", ".", ")">>,
                                            <<"m", "i", "n", "s", ".", ")">>}

OneSpace(gap) == gap = <<" ">>

AnyWhiteSpace(gap) == \A i \in DOMAIN gap : gap[i] \in {" ", "\n", "\t"}

\* the places of the text where a minute pattern is found
MinutePatterns(gapOk(_)) ==
    {m \in (1..Len(TimeBoxText)) \X (1..Len(TimeBoxText)) :
        \E e \in 1..Len(TimeBoxText) : MinutePattern(m[1], m[2], e, gapOk)}

\* the number written with the digits of the first minute pattern
FirstMinutes(gapOk(_)) ==
    LET m == CHOOSE x \in MinutePatterns(gapOk) :
                 \A y \in MinutePatterns(gapOk) : x[1] <= y[1]
    IN  StrToNum(SubSeq(TimeBoxText, m[1] + 1, m[2]))

\* C20 as stated: getTimeBoxFromElement returns N when the line with the
\* time box holds "(N min.)" or "(N mins.)", N a run of digits, and fails
\* when the selection has no such line or the line holds no such pattern.
C20_TimeBoxOnlyFromWrittenPattern ==
    (op = "getTimeBoxFromElement" /\ pc = "done")
    => IF input.hasTimeBoxLine /\ MinutePatterns(OneSpace) # {}
       THEN ret = Return(FirstMinutes(OneSpace))
       ELSE ret.kind = "throw"

\* C20, amended: getTimeBoxFromElement returns N when the line with the time
\* box holds "(", a run of digits N, any run of white space (none, one or
\* several characters, a non-breaking space included), "min" or "mins", and
\* ".)": the N of the first such pattern of the line; it fails, with the
\* message of the selection not found, when the selection has no such line
\* or the line holds no such pattern; it never returns a default value.
C20_TimeBoxFromPatternWithAnyGap ==
    (op = "getTimeBoxFromElement" /\ pc = "done")
    => IF input.hasTimeBoxLine /\ MinutePatterns(AnyWhiteSpace) # {}
       THEN ret = Return(FirstMinutes(AnyWhiteSpace))
       ELSE ret = Throw(Error(MSG_NO_TIME_BOX))

\* the line "(7min.)" gave 7
C20_Witness ==
    /\ op = "getTimeBoxFromElement" /\ pc = "done"
    /\ input.hasTimeBoxLine
    /\ input.timeBoxLine = <<"(", "7", "m", "i", "n", ".", ")">>
    /\ ret = Return(7)

\* the text of a heading without the white space around it, a non-breaking
\* space counting as white space
HeadingText(text) ==
    LET blank(c) == c \in {" ", "\n", "\t", NBSP}
        from == {i \in DOMAIN text : ~blank(text[i])}
    IN  IF from = {} THEN <<>>
        ELSE SubSeq(text, CHOOSE i \in from : \A j \in from : i <= j,
                          CHOOSE i \in from : \A j \in from : i >= j)

\* the heading text starts with one decimal digit and a dot
HasDigitPrefix(text) ==
    /\ Len(HeadingText(text)) >= 2
    /\ HeadingText(text)[1] \in {"0", "1", "2", "3", "4", "5", "6", "7", "8", "9"}
    /\ HeadingText(text)[2] = "."

\* the digit the heading text starts with, as an integer
DigitPrefix(text) == CHOOSE d \in 0..9 : NumToStr(d) = <<HeadingText(text)[1]>>

\* C21: getSectionNumberFromElement succeeds if and only if the cleaned
\* text of the heading starts with one decimal digit immediately followed by
\* a dot, and returns that digit as an integer; for every other text it
\* fails.  The sectionNumber of a record an extractor returns is the digit
\* prefix of the heading the record was made from.
C21_SectionNumberIsTheDigitPrefix ==
    /\ (op = "getSectionNumberFromElement" /\ pc = "done")
       => IF HasDigitPrefix(input.text)
          THEN ret = Return(DigitPrefix(input.text))
          ELSE ret.kind = "throw"
    /\ (op \in {"extractTreasuresTalk", "extractBibleStudy"} /\ pc = "done"
        /\ ret.kind = "return")
       => LET h3 == IF op = "extractBibleStudy" THEN input.bibleStudy.h3 ELSE input.talk.h3
          IN  HasDigitPrefix(h3) /\ ret.val.sectionNumber = DigitPrefix(h3)
    /\ (op = "extractFieldMinistry" /\ pc = "done" /\ ret.kind = "return")
       => LET headings == SelectSeq(input.fieldMinistry, LAMBDA e : e.tag = "h3")
          IN  /\ Len(ret.val.items) = Len(headings)
              /\ \A k \in DOMAIN headings :
                    /\ HasDigitPrefix(headings[k].text)
                    /\ ret.val.items[k].sectionNumber = DigitPrefix(headings[k].text)

\* the heading " 7. F " between white space gave 7
C21_Witness ==
    /\ op = "getSectionNumberFromElement" /\ pc = "done"
    /\ input.text = <<" ", NBSP, "7", ".", " ", "F", " ">>
    /\ ret = Return(7)

\* the fetches of extractWeeklyBibleRead that have completed: those before
\* the one the loop is awaiting, or all of them once the call has settled
WeeklyCompleted ==
    IF wbr.st = "running" THEN wbr.i - 1 ELSE Len(fetchLog)

\* C22: extractWeeklyBibleRead requests the anchors of the reading line in
\* document order, each once, and one at a time: at most one fetch is
\* outstanding; when the fetch of an anchor is outstanding the payloads of
\* all the anchors before it have passed the checks of the loop and the
\* chapter bounds hold them all; the call succeeds only after every anchor
\* has been resolved, and fails on the first payload that does not pass.
C22_WeeklyReadResolvesAnchorsOneAtATime ==
    (op = "extractWeeklyBibleRead")
    => /\ Len(fetchLog) <= Len(input.anchors)
       /\ \A j \in DOMAIN fetchLog :
             fetchLog[j] = [task |-> "weeklyBibleRead", anchor |-> j,
                            url |-> BASE_URL \o SliceFrom(input.anchors[j], 3)]
       /\ Len(fetchLog) - WeeklyCompleted \in {0, 1}
       /\ pc = "await"
          => /\ Len(fetchLog) - WeeklyCompleted = 1
             /\ \A j \in 1..(Len(fetchLog) - 1) : WeeklyScripture(input.resps[j])
             /\ Len(fetchLog) > 1
                => /\ \A j \in 1..(Len(fetchLog) - 1) :
                         /\ wbr.result.firstChapter <= input.resps[j].json.items[1].first_chapter
                         /\ wbr.result.lastChapter >= input.resps[j].json.items[1].last_chapter
                   /\ \E j \in 1..(Len(fetchLog) - 1) :
                         wbr.result.firstChapter = input.resps[j].json.items[1].first_chapter
                   /\ \E j \in 1..(Len(fetchLog) - 1) :
                         wbr.result.lastChapter = input.resps[j].json.items[1].last_chapter
       /\ (pc = "done" /\ ret.kind = "return")
          => /\ Len(fetchLog) = Len(input.anchors)
             /\ \A j \in DOMAIN input.anchors : WeeklyScripture(input.resps[j])
       /\ (pc = "done" /\ ret.kind = "throw" /\ fetchLog # <<>>)
          => /\ ~WeeklyScripture(input.resps[Len(fetchLog)])
             /\ \A j \in 1..(Len(fetchLog) - 1) : WeeklyScripture(input.resps[j])

\* the fetch of the third anchor is outstanding, the first two payloads
\* being folded into the chapter bounds, the second having widened them
C22_Witness ==
    /\ op = "extractWeeklyBibleRead" /\ pc = "await"
    /\ Len(input.anchors) = 3 /\ Len(fetchLog) = 3
    /\ wbr.result.lastChapter = input.resps[2].json.items[1].last_chapter
    /\ wbr.result.lastChapter > input.resps[1].json.items[1].last_chapter

\* the talk has been read up to its points: the call is past the checks of
\* the section number and of the time box
TalkReadsItsPoints ==
    /\ op = "extractTreasuresTalk" /\ pc # "start"
    /\ ~(pc = "done" /\ fetchLog = <<>> /\ ret.kind = "throw")

\* the fetches of extractTreasuresTalk that have completed: those before the
\* one the loop is awaiting, or all of them once the call has settled
TalkCompleted ==
    IF talk.st = "running" THEN talk.footnoteKey - 1 ELSE Len(fetchLog)

\* C23 as stated: extractTreasuresTalk issues the fetches of the reference
\* anchors of the talk without waiting for earlier ones to complete: once
\* the call has read the points, every reference anchor has been requested.
C23_TalkFootnotesAreFannedOut ==
    TalkReadsItsPoints => Len(fetchLog) = TalkAnchors

\* C23, amended: extractTreasuresTalk resolves the reference anchors of the
\* talk one at a time, in document order: at most one fetch is outstanding,
\* the fetch of an anchor is issued only after every anchor before it has
\* been resolved and recorded as a footnote, no anchor is requested after one
\* that fails, and the talk record is returned only after every anchor has
\* been resolved.
C23_TalkFootnotesAreResolvedOneAtATime ==
    (op = "extractTreasuresTalk")
    => /\ Len(fetchLog) <= TalkAnchors
       /\ \A f \in DOMAIN fetchLog :
             fetchLog[f] = [task |-> "treasuresTalk", anchor |-> f,
                            url |-> BASE_URL \o SliceFrom(TalkRefsOf(input.talk.points)[f].href, 3)]
       /\ Len(fetchLog) - TalkCompleted \in {0, 1}
       /\ \A f \in 1..(Len(fetchLog) - 1) :
             ~Truthy(fetchAndParseAnchorReferenceOrThrow(
                         TalkRefsOf(input.talk.points)[f].resp).val.err)
       /\ pc = "await"
          => /\ Len(fetchLog) - TalkCompleted = 1
             /\ DOMAIN talk.result.footnotes = 1..(Len(fetchLog) - 1)
       /\ TalkSucceeded => Len(fetchLog) = TalkAnchors

\* the fetch of the second reference of a talk of three is outstanding, the
\* third not being requested yet
C23_Witness ==
    /\ op = "extractTreasuresTalk" /\ pc = "await"
    /\ TalkAnchors = 3
    /\ Len(fetchLog) = 2
    /\ DOMAIN talk.result.footnotes = {1}

\* the text of the anchor of a song holds a digit
NamesASong(song) ==
    \E i \in DOMAIN song.text :
        song.text[i] \in {"0", "1", "2", "3", "4", "5", "6", "7", "8", "9"}

\* the songs of the selection that name a song, in the order of the document
RECURSIVE SongsToFetch(_, _)
SongsToFetch(songs, k) ==
    IF k > Len(songs) THEN <<>>
    ELSE (IF NamesASong(songs[k])
          THEN <<[task |-> "song", anchor |-> k,
                  url |-> BASE_URL \o SliceFrom(songs[k].href, 3)]>>
          ELSE <<>>) \o SongsToFetch(songs, k + 1)

\* extractSongData has been called and has got its selection of songs
SongsSelected ==
    /\ op = "extractSongData" /\ pc # "start"
    /\ Truthy(input.cheerio) \/ Truthy(input.html)

\* C24 as stated: extractSongData issues one fetch per song for all three
\* songs before any of them has completed, returns its result only after
\* the three lookups have completed successfully, and fails without a fetch
\* when the number of song anchors is not three.
C24_SongLookupsAreFannedOutForAllThree ==
    SongsSelected
    => /\ Len(input.songs) = 3
          => /\ Len(fetchLog) = 3
             /\ ret.kind = "return"
                => \A k \in DOMAIN input.songs : tasks.songs.promises[k].st = "fulfilled"
       /\ Len(input.songs) # 3 => (ret.kind = "throw" /\ fetchLog = <<>>)

\* C24, amended: extractSongData fails without a fetch when the number of
\* song anchors is not three; with three, the call issues, before any fetch
\* has completed, one fetch for every song whose anchor text holds a number,
\* in document order, and none afterwards, so up to three are outstanding at
\* once; a song whose anchor text holds no number gets no fetch and makes the
\* call fail, the fetches of the other songs being issued all the same; the
\* result becomes available only after the three lookups have completed
\* successfully.
C24_SongLookupsAreFannedOut ==
    SongsSelected
    => /\ Len(input.songs) = 3
          => /\ fetchLog = SongsToFetch(input.songs, 1)
             /\ \A k \in DOMAIN input.songs :
                   /\ tasks.songs.promises[k].st = "running" => NamesASong(input.songs[k])
                   /\ ~NamesASong(input.songs[k])
                      => (tasks.songs.promises[k].st = "rejected" /\ ret.kind = "throw")
             /\ ret.kind = "return"
                <=> \A k \in DOMAIN input.songs : tasks.songs.promises[k].st = "fulfilled"
             /\ (pc = "await" /\ \A k \in DOMAIN input.songs :
                                      tasks.songs.promises[k].st # "rejected")
                => ret = Pending
       /\ Len(input.songs) # 3
          => /\ ret = Throw(Error(MSG_SONG_ANCHORS(Len(input.songs))))
             /\ fetchLog = <<>>
             /\ pc = "done"

\* the three fetches of the songs are outstanding at once
C24_Witness ==
    /\ op = "extractSongData" /\ pc = "await"
    /\ Len(fetchLog) = 3
    /\ \A k \in DOMAIN input.songs : tasks.songs.promises[k].st = "running"
    /\ ret = Pending

\* a selection of two songs was refused without a fetch
C24_WitnessNotThree ==
    /\ op = "extractSongData" /\ pc = "done"
    /\ Len(input.songs) = 2
    /\ ret.kind = "throw" /\ fetchLog = <<>>

\* the text of a point of the talk with the marker of each of its anchors
\* right after the text of that anchor, ids being the ids of its anchors
WovenText(point, ids) ==
    cleanText(<<" ", "s", "e", "e", " ">>
              \o Join([m \in DOMAIN point.refs |->
                           point.refs[m].text \o <<"[", "^">> \o NumToStr(ids[m]) \o <<"]">>],
                      ";")
              \o <<".", NBSP>>)

\* C25: when extractTreasuresTalk succeeds, the text of every point holds,
\* right after the visible text of each of its reference anchors, the marker
\* [^k] of the id k given to that anchor, and no other marker, also when two
\* anchors of the point have the same visible text.
C25_MarkersFollowTheirOwnAnchor ==
    TalkSucceeded
    => \A k \in DOMAIN ret.val.points :
          ret.val.points[k].text = WovenText(input.talk.points[k], ret.val.points[k].footnotes)

\* the places of the level-3 headings of the flat list
HeadingPlaces == {i \in DOMAIN input.elements : input.elements[i].tag = "h3"}

\* the place of the g-th heading of the flat list
HeadingPlace(g) ==
    CHOOSE i \in HeadingPlaces : Cardinality({j \in HeadingPlaces : j < i}) = g - 1

\* the place where the run of the heading at place i ends: before the next
\* heading, or at the end of the list
RunEnd(i) ==
    IF \E j \in HeadingPlaces : j > i
    THEN (CHOOSE j \in HeadingPlaces : j > i /\ \A n \in HeadingPlaces : n > i => j <= n) - 1
    ELSE Len(input.elements)

\* C26: buildHeadlineToContentGroups returns one group per level-3 heading
\* of the flat list, in document order; the contents of a group are the
\* elements between its heading and the next heading, or the end of the
\* list, in order; an element before the first heading is in no group.
C26_OneGroupPerHeading ==
    (op = "buildHeadlineToContentGroups" /\ pc = "done")
    => /\ ret.kind = "return"
       /\ Len(ret.val.items) = Cardinality(HeadingPlaces)
       /\ \A g \in DOMAIN ret.val.items :
             /\ ret.val.items[g].heading = input.elements[HeadingPlace(g)]
             /\ ret.val.items[g].contents
                  = SubSeq(input.elements, HeadingPlace(g) + 1, RunEnd(HeadingPlace(g)))
       /\ Sum([g \in DOMAIN ret.val.items |-> 1 + Len(ret.val.items[g].contents)])
            = Cardinality({i \in DOMAIN input.elements : \E j \in HeadingPlaces : j <= i})

\* a list of an element, a heading and two elements gave one group, of the
\* two elements after the heading
C26_Witness ==
    /\ op = "buildHeadlineToContentGroups" /\ pc = "done"
    /\ Len(input.elements) = 4
    /\ input.elements[1].tag # "h3"
    /\ HeadingPlaces = {2}
    /\ Len(ret.val.items) = 1
    /\ ret.val.items[1].contents = SubSeq(input.elements, 3, 4)

\* the document of the call is one buildRelevantProgramGroupSelections
\* accepts
BuilderAccepts ==
    /\ Truthy(input.cheerio) \/ Truthy(input.html)
    /\ buildRelevantProgramGroupSelections(input.body).kind = "return"

\* the week date span, the christian living section and the bible study of
\* the document are extracted without an error
SynchronousExtractionsSucceed ==
    /\ extractWeekDateSpan(input).kind = "return"
    /\ extractChristianLiving(WithSelection(input)).kind = "return"
    /\ extractBibleStudy(WithSelection(input)).kind = "return"

\* C27: extractFullWeekProgram issues a fetch only once the builder of the
\* selection groups has accepted the document and the week date span, the
\* christian living section and the bible study have been extracted: when
\* the builder or one of these extractions fails the call has failed, at the
\* end of its first step, and no fetch was issued.
C27_NoFetchBeforeSynchronousSuccess ==
    (op = "extractFullWeekProgram")
    => /\ fetchLog # <<>> => (BuilderAccepts /\ SynchronousExtractionsSucceed)
       /\ (pc # "start" /\ ~(BuilderAccepts /\ SynchronousExtractionsSucceed))
          => /\ pc = "done"
             /\ ret.kind = "throw"
             /\ fetchLog = <<>>

\* the builder accepted the document, the bible study could not be
\* extracted, and the call failed without a fetch
C27_Witness ==
    /\ op = "extractFullWeekProgram" /\ pc = "done"
    /\ BuilderAccepts
    /\ extractWeekDateSpan(input).kind = "return"
    /\ extractBibleStudy(WithSelection(input)).kind = "throw"
    /\ ret = extractBibleStudy(WithSelection(input))
    /\ fetchLog = <<>>

\* the builder of the selection groups accepted the document
GroupsBuilt ==
    op = "buildRelevantProgramGroupSelections" /\ pc = "done" /\ ret.kind = "return"

\* the content sub-trees of the selection groups
ContentGroups ==
    <<ret.val.treasuresTalk, ret.val.spiritualGems, ret.val.bibleRead,
      ret.val.fieldMinistry, ret.val.christianLiving, ret.val.bibleStudy>>

\* the elements of the document a song landmark selector matches
SongLandmarkElements ==
    {i \in DOMAIN input.body :
        \/ input.body[i].id = "p3"
        \/ "dc-icon--music" \in input.body[i].classes /\ i # 1
        \/ input.body[i].tag = "h3" /\ i = Len(input.body)}

\* the last h3 before the last element of the document
LastHeadingBeforeClosingSong ==
    CHOOSE h \in 1..(Len(input.body) - 1) :
        /\ input.body[h].tag = "h3"
        /\ \A j \in (h + 1)..(Len(input.body) - 1) : input.body[j].tag # "h3"

\* C28: for every document buildRelevantProgramGroupSelections accepts,
\* the sub-trees treasuresTalk, spiritualGems, bibleRead, fieldMinistry,
\* christianLiving and bibleStudy are pairwise disjoint, none holds a song
\* landmark, bibleStudy is the last h3 before the closing song followed by
\* every sibling between that heading and the closing song, and
\* christianLiving ends before that heading.
C28_ContentGroupsAreDisjoint ==
    GroupsBuilt
    => /\ \A a, b \in DOMAIN ContentGroups :
             a # b => Range(ContentGroups[a]) \cap Range(ContentGroups[b]) = {}
       /\ \A a \in DOMAIN ContentGroups :
             Range(ContentGroups[a]) \cap SongLandmarkElements = {}
       /\ ret.val.bibleStudy
            = [i \in 1..(Len(input.body) - LastHeadingBeforeClosingSong) |->
                  LastHeadingBeforeClosingSong + i - 1]
       /\ \A i \in Range(ret.val.christianLiving) : i < LastHeadingBeforeClosingSong

\* extractSpiritualGems succeeded
GemsSucceeded ==
    op = "extractSpiritualGems" /\ pc = "done" /\ ret.kind = "return"

\* the anchors of the content other than the scripture anchor, in document
\* order
OtherGemsAnchors == SelectSeq(input.gems.anchors, LAMBDA a : ~a.b)

\* C29: when extractSpiritualGems succeeds, the scripture anchor was
\* fetched once, as the first fetch, and never as an answer source, and
\* answerSources has one entry for every other anchor of the content, in
\* document order, wherever the scripture anchor is among the anchors.
C29_AnswerSourcesAreTheOtherAnchors ==
    GemsSucceeded
    => LET scripture == SelectSeq(input.gems.anchors, LAMBDA a : a.b)[1]
           answerSources == ret.val.printedQuestionData.answerSources
       IN  /\ [i \in DOMAIN fetchLog |-> fetchLog[i].url]
                = <<Fetch("spiritualGems", 0, scripture.href).url>>
                  \o [i \in DOMAIN OtherGemsAnchors |->
                         Fetch("spiritualGems", i, OtherGemsAnchors[i].href).url]
           /\ [i \in DOMAIN answerSources |-> answerSources[i].mnemonic]
                = [i \in DOMAIN OtherGemsAnchors |-> cleanText(OtherGemsAnchors[i].text)]

\* fetchLandingHtml has resolved to its tuple
LandingSettled == op = "fetchLandingHtml" /\ pc = "done"

\* the first request succeeded and its page has a link for the language
LandingHasLanguageLink ==
    /\ input.base.ok
    /\ input.base.json.hrefLangEs.cls = "String"
    /\ input.base.json.hrefLangEs.chars # <<>>

\* C30: fetchLandingHtml, when it succeeds, resolves to the html its
\* second request was answered with; it has made the second request, after
\* the first, only if the first succeeded and its page has a link for the
\* language, and otherwise it resolves to an error tuple having made one
\* request.
C30_LandingIsTheSecondContent ==
    /\ (op = "fetchLandingHtml" /\ Len(fetchLog) > 1)
       => /\ LandingHasLanguageLink
          /\ fetchLog = <<LandingRequest(1, BASE_URL),
                          LandingRequest(2, BASE_URL \o input.base.json.hrefLangEs.chars)>>
    /\ LandingSettled
       => /\ ~Truthy(ret.val.err) => ret.val.res = input.language.json
          /\ ~LandingHasLanguageLink
             => /\ Truthy(ret.val.err) /\ ret.val.res = Null
                /\ fetchLog = <<LandingRequest(1, BASE_URL)>>

====
